---------------------------- MODULE Spec2Model ----------------------------
(***************************************************************************)
(* Silo-Sight stereo deepfake detection: a state-machine model of the      *)
(* consistency scorer (config.py, Output/scorer.py), the reprojection      *)
(* error calculator (Comparison/error_calculator.py), the triangulator     *)
(* (3D Estimation/triangulator.py), the landmark detector                  *)
(* (2D Detection/landmark_detector.py) and the pipeline orchestrator       *)
(* (detect_deepfake.py).                                                   *)
(*                                                                         *)
(* Numbers.  Pixel errors are fixed-point integers in tenths of a pixel    *)
(* (50 is 5.0 px); confidence scores are whole points (0..100).  With      *)
(* these units the interpolation of calculate_confidence_score is exact.   *)
(* A Python float is an integer of that grid or one of the three IEEE-754  *)
(* special values PosInf, NegInf, NaN.  PosInf and NegInf are integers     *)
(* beyond every finite value of the model, so the integer order is the     *)
(* float order on them; NaN is compared only through FLt, FGt, FLe, FGe,   *)
(* which are FALSE as soon as one side is NaN, as in IEEE-754.             *)
(***************************************************************************)
EXTENDS Integers, Sequences, FiniteSets, TLC

VARIABLES
    last_call,      \* scorer: the most recent call [fn, arg, ret]
    prev_call,      \* scorer: the call before it
    clock,          \* datetime.now(), as a tick counter
    pc,             \* pipeline: the statement the entered call is at
    entry,          \* pipeline: the public operation that was called
    args,           \* pipeline: its arguments
    landmarks,      \* <<landmarks_front, landmarks_side>> (observed points)
    undistorted,    \* triangulate: <<points_cam1, points_cam2>>
    cur_points_3d,      \* the triangulated points
    cur_reprojected,    \* <<reprojected_front, reprojected_side>>
    cur_error_stats,    \* the dict calculate_mean_error returned
    outcome,        \* how the entered call ended: pending, returned, raised
    steps,          \* the component and library calls made so far, in order
    cal_pc,         \* calibration: the statement the entered call is at
    cal_entry,      \* calibration: calibrate_stereo or the CLI's main
    images,         \* <<images_cam1, images_cam2>>
    output_path,    \* main: args.output
    valid_idx,      \* <<valid_idx1, valid_idx2>>
    image_size,     \* StereoCalibrator.image_size
    intrinsics,     \* <<K1, K2>> of the single-camera calibrations
    cal_outcome,    \* how calibrate_stereo ended
    files,          \* the calibration files on disk
    loaded,         \* what the last load_calibration did
    exit_status,    \* main: the process's exit status, -1 while it runs
    cal_warnings,   \* the cameras whose calibration error drew a warning
    stereo_pairs,   \* the point sets handed to cv2.stereoCalibrate
    validation,     \* validate_calibration: its argument and what it returned
    csv_file,       \* the CSV file at --output-csv: its rows, if it exists
    json_file,      \* the JSON file at --output-json
    sink_calls,     \* the save_result_csv and save_result_json calls so far
    cli_pc,         \* detect_deepfake.main: off, detecting or exited
    cli_args,       \* its parsed arguments
    exit_code,      \* the process's exit status, -1 while there is none
    close_calls,    \* the number of pipeline.close() calls
    tri_self,       \* a StereoTriangulator instance: its loaded calibration
    tri_log         \* a first call made on it and a later one

scorer_vars == <<last_call, prev_call>>

pipeline_vars == <<pc, entry, args, landmarks, undistorted, cur_points_3d,
                   cur_reprojected, cur_error_stats, outcome, steps>>

calibration_vars == <<cal_pc, cal_entry, images, output_path, valid_idx,
                      image_size, intrinsics, cal_outcome, files, loaded,
                      exit_status, cal_warnings, stereo_pairs, validation>>

calibration_log_vars == <<cal_warnings, stereo_pairs, validation>>

sink_vars == <<csv_file, json_file, sink_calls>>

cli_vars == <<cli_pc, cli_args, exit_code, close_calls>>

tri_vars == <<tri_self, tri_log>>

vars == <<last_call, prev_call, clock, pc, entry, args, landmarks,
          undistorted, cur_points_3d, cur_reprojected, cur_error_stats, outcome, steps,
          cal_pc, cal_entry, images, output_path, valid_idx, image_size,
          intrinsics, cal_outcome, files, loaded, exit_status,
          cal_warnings, stereo_pairs, validation,
          csv_file, json_file, sink_calls,
          cli_pc, cli_args, exit_code, close_calls,
          tri_self, tri_log>>

---------------------------------------------------------------------------
(* Bounds of the model *)

\* largest finite mean error enumerated, tenths of a pixel (18.0 px)
MaxErr == 180
\* most negative finite mean error enumerated is -MaxNegErr tenths
MaxNegErr == 10
\* confidence inputs of is_deepfake range over -ConfMargin .. 100 + ConfMargin
ConfMargin == 5
\* datetime.now() takes the values 0 .. MaxClock
MaxClock == 1
\* at most MaxSinkCalls results are saved
MaxSinkCalls == 3
\* calibration image lists have MIN_CALIBRATION_IMAGES - 1 .. MaxImages images
MaxImages == 11
\* the first VaryingImages images of a list may be unreadable or lack the
\* checkerboard; the others show it
VaryingImages == 3
\* the synthetic point clouds have 1 .. MaxCloud points
MaxCloud == 2
\* arrays passed to triangulate and to the error calculator have 0 .. MaxN rows
MaxN == 2
\* MediaPipe's face mesh has MeshSize landmarks
MeshSize == 2

---------------------------------------------------------------------------
(* IEEE-754 floats *)

PosInf == 1000000
NegInf == -1000000
NaN == -7777777

IsNaN(x) == x = NaN

FLt(a, b) == ~IsNaN(a) /\ ~IsNaN(b) /\ a < b
FGt(a, b) == ~IsNaN(a) /\ ~IsNaN(b) /\ a > b
FLe(a, b) == ~IsNaN(a) /\ ~IsNaN(b) /\ a <= b
FGe(a, b) == ~IsNaN(a) /\ ~IsNaN(b) /\ a >= b

IsInf(x) == x = PosInf \/ x = NegInf

Sign(x) == IF x > 0 THEN 1 ELSE IF x < 0 THEN -1 ELSE 0

\* -a
FNeg(a) == IF IsNaN(a) THEN NaN ELSE 0 - a

\* a + b: inf + (-inf) is NaN
FAdd(a, b) ==
    IF IsNaN(a) \/ IsNaN(b) THEN NaN
    ELSE IF IsInf(a) /\ IsInf(b) THEN (IF a = b THEN a ELSE NaN)
    ELSE IF IsInf(a) THEN a
    ELSE IF IsInf(b) THEN b
    ELSE a + b

FSub(a, b) == FAdd(a, FNeg(b))

\* a * b: 0 * inf is NaN
FMul(a, b) ==
    IF IsNaN(a) \/ IsNaN(b) THEN NaN
    ELSE IF IsInf(a) \/ IsInf(b)
         THEN (IF a = 0 \/ b = 0 THEN NaN ELSE Sign(a) * Sign(b) * PosInf)
    ELSE a * b

\* the quotient of two finite integers, rounded toward zero
TruncDiv(a, b) == Sign(a) * Sign(b) * ((Sign(a) * a) \div (Sign(b) * b))

\* a / b on numpy floats: x / 0 is +-inf, 0 / 0 and inf / inf are NaN (a
\* RuntimeWarning, not an exception)
FDiv(a, b) ==
    IF IsNaN(a) \/ IsNaN(b) THEN NaN
    ELSE IF IsInf(a) /\ IsInf(b) THEN NaN
    ELSE IF IsInf(a) THEN (IF b < 0 THEN FNeg(a) ELSE a)
    ELSE IF IsInf(b) THEN 0
    ELSE IF b = 0 THEN (IF a = 0 THEN NaN ELSE Sign(a) * PosInf)
    ELSE TruncDiv(a, b)

\* the integer square root of s by bisection: lo * lo <= s < hi * hi
RECURSIVE ISqrtIn(_, _, _)
ISqrtIn(s, lo, hi) ==
    IF hi - lo <= 1 THEN lo
    ELSE LET mid == (lo + hi) \div 2
         IN  IF mid * mid <= s THEN ISqrtIn(s, mid, hi) ELSE ISqrtIn(s, lo, mid)

\* sqrt(a): NaN for NaN and for a negative a
FSqrt(a) ==
    IF IsNaN(a) \/ a < 0 THEN NaN
    ELSE IF a = PosInf THEN PosInf
    ELSE ISqrtIn(a, 0, a + 1)

\* np.clip(x, lo, hi) == minimum(maximum(x, lo), hi); a NaN x stays NaN
np_clip(x, lo, hi) ==
    IF IsNaN(x) THEN NaN
    ELSE IF x < lo THEN lo
    ELSE IF x > hi THEN hi
    ELSE x

---------------------------------------------------------------------------
(* Python values: None, exceptions, numpy arrays *)

\* the value of a call that returned v, and of one that raised e
Ok(v) == [raised |-> FALSE, value |-> v]
Raised(e) == [raised |-> TRUE, exc |-> e]

PyNone == [none |-> TRUE]
IsNone(v) == v.none

\* a 2-D numpy array of c columns; rows is a sequence of c-tuples
NdArray(rows, c) == [none |-> FALSE, shape |-> <<Len(rows), c>>, data |-> rows]

\* len(a): the number of rows
PyLen(a) == a.shape[1]

RECURSIVE FSum(_)
FSum(xs) == IF xs = <<>> THEN 0 ELSE FAdd(xs[1], FSum(Tail(xs)))

\* np.mean of a 1-D array: 0 / 0 is NaN for an empty array
np_mean(xs) == FDiv(FSum(xs), Len(xs))

\* np.std of a 1-D array: sqrt(mean(abs(x - mean) ** 2))
np_std(xs) ==
    LET m == np_mean(xs)
        sq == [i \in 1 .. Len(xs) |-> FMul(FSub(xs[i], m), FSub(xs[i], m))]
    IN  FSqrt(np_mean(sq))

\* np.min and np.max of a non-empty 1-D array: NaN if any element is NaN
np_min(xs) ==
    IF \E i \in 1 .. Len(xs) : IsNaN(xs[i]) THEN NaN
    ELSE CHOOSE v \in {xs[i] : i \in 1 .. Len(xs)} :
            \A i \in 1 .. Len(xs) : v <= xs[i]
np_max(xs) ==
    IF \E i \in 1 .. Len(xs) : IsNaN(xs[i]) THEN NaN
    ELSE CHOOSE v \in {xs[i] : i \in 1 .. Len(xs)} :
            \A i \in 1 .. Len(xs) : v >= xs[i]

\* np.linalg.norm(a - b) of two rows of equal length
RowDistance(a, b) ==
    FSqrt(FSum([j \in 1 .. Len(a) |-> FMul(FSub(a[j], b[j]), FSub(a[j], b[j]))]))

---------------------------------------------------------------------------
(* config.py *)

\* 5.0 px and 15.0 px, in tenths of a pixel
REAL_HUMAN_THRESHOLD == 50
DEEPFAKE_THRESHOLD == 150
MIN_CONFIDENCE == 0
MAX_CONFIDENCE == 100
HUMAN_CONFIDENCE_CUTOFF == 70

\* a slip of calculate_confidence_score: the interpolation is not inverted
\* (confidence = normalized_error * MAX_CONFIDENCE)
calculate_confidence_score_not_inverted(mean_error) ==
    LET confidence ==
            IF FLt(mean_error, REAL_HUMAN_THRESHOLD) THEN MAX_CONFIDENCE
            ELSE IF FGt(mean_error, DEEPFAKE_THRESHOLD) THEN MIN_CONFIDENCE
            ELSE FDiv(FMul(FSub(mean_error, REAL_HUMAN_THRESHOLD), MAX_CONFIDENCE),
                       DEEPFAKE_THRESHOLD - REAL_HUMAN_THRESHOLD)
    IN  np_clip(confidence, MIN_CONFIDENCE, MAX_CONFIDENCE)

\* a slip of calculate_confidence_score: the two constant branches swapped
\* above the deepfake threshold (MAX_CONFIDENCE instead of MIN_CONFIDENCE)
calculate_confidence_score_high_is_max(mean_error) ==
    LET confidence ==
            IF FLt(mean_error, REAL_HUMAN_THRESHOLD) THEN MAX_CONFIDENCE
            ELSE IF FGt(mean_error, DEEPFAKE_THRESHOLD) THEN MAX_CONFIDENCE
            ELSE FSub(MAX_CONFIDENCE,
                      FDiv(FMul(FSub(mean_error, REAL_HUMAN_THRESHOLD), MAX_CONFIDENCE),
                            DEEPFAKE_THRESHOLD - REAL_HUMAN_THRESHOLD))
    IN  np_clip(confidence, MIN_CONFIDENCE, MAX_CONFIDENCE)

\* a slip of calculate_confidence_score: error_range is the deepfake
\* threshold itself, not the distance between the thresholds
calculate_confidence_score_wrong_range(mean_error) ==
    LET confidence ==
            IF FLt(mean_error, REAL_HUMAN_THRESHOLD) THEN MAX_CONFIDENCE
            ELSE IF FGt(mean_error, DEEPFAKE_THRESHOLD) THEN MIN_CONFIDENCE
            ELSE FSub(MAX_CONFIDENCE,
                      FDiv(FMul(FSub(mean_error, REAL_HUMAN_THRESHOLD), MAX_CONFIDENCE),
                            DEEPFAKE_THRESHOLD))
    IN  np_clip(confidence, MIN_CONFIDENCE, MAX_CONFIDENCE)

\* config.calculate_confidence_score.  normalized_error * MAX_CONFIDENCE is
\* ((mean_error - REAL) / range) * MAX; the product is taken before the
\* quotient so that the fixed-point value is the exact real value.
calculate_confidence_score(mean_error) ==
    LET confidence ==
            IF FLt(mean_error, REAL_HUMAN_THRESHOLD) THEN MAX_CONFIDENCE
            ELSE IF FGt(mean_error, DEEPFAKE_THRESHOLD) THEN MIN_CONFIDENCE
            ELSE LET error_range == DEEPFAKE_THRESHOLD - REAL_HUMAN_THRESHOLD
                     scaled == FDiv(FMul(FSub(mean_error, REAL_HUMAN_THRESHOLD),
                                          MAX_CONFIDENCE), error_range)
                 IN  FSub(MAX_CONFIDENCE, scaled)
    IN  np_clip(confidence, MIN_CONFIDENCE, MAX_CONFIDENCE)

\* a slip of is_deepfake: the comparison is not strict
is_deepfake_not_strict(confidence_score) ==
    FLe(confidence_score, HUMAN_CONFIDENCE_CUTOFF)

\* config.is_deepfake
is_deepfake(confidence_score) == FLt(confidence_score, HUMAN_CONFIDENCE_CUTOFF)

---------------------------------------------------------------------------
(* Output/scorer.py: class DeepfakeScorer *)

\* a slip of DeepfakeScorer.__init__: the scorer keeps a cutoff of its own,
\* which the functions of config do not use
DeepfakeScorer_init_own_cutoff ==
    [real_threshold |-> REAL_HUMAN_THRESHOLD,
     deepfake_threshold |-> DEEPFAKE_THRESHOLD,
     confidence_cutoff |-> (MIN_CONFIDENCE + MAX_CONFIDENCE) \div 2]

\* DeepfakeScorer.__init__: the thresholds are copied from config
DeepfakeScorer_init ==
    [real_threshold |-> REAL_HUMAN_THRESHOLD,
     deepfake_threshold |-> DEEPFAKE_THRESHOLD,
     confidence_cutoff |-> HUMAN_CONFIDENCE_CUTOFF]

\* DeepfakeScorer.calculate_confidence_score delegates to config
DeepfakeScorer_calculate_confidence_score(mean_error) ==
    calculate_confidence_score(mean_error)

\* DeepfakeScorer.determine_authenticity delegates to config
DeepfakeScorer_determine_authenticity(confidence_score) ==
    is_deepfake(confidence_score)

\* a slip of generate_detection_result: the subject is classified at the
\* midpoint of the confidence range instead of the cutoff
DeepfakeScorer_generate_detection_result_midpoint(self, error_stats, now) ==
    LET mean_error == error_stats.mean_error
        confidence_score == DeepfakeScorer_calculate_confidence_score(mean_error)
        deepfake == FLt(confidence_score * 2, MIN_CONFIDENCE + MAX_CONFIDENCE)
    IN  [timestamp |-> now,
         detection |->
            [is_deepfake |-> deepfake,
             confidence_score |-> confidence_score,
             classification |-> IF deepfake THEN "deepfake" ELSE "real_human"],
         metrics |->
            [mean_reprojection_error |-> mean_error,
             std_reprojection_error |-> error_stats.std_error,
             min_error |-> error_stats.min_error,
             max_error |-> error_stats.max_error,
             cam1_mean_error |-> error_stats.cam1_mean,
             cam2_mean_error |-> error_stats.cam2_mean,
             landmarks_analyzed |-> error_stats.n_landmarks],
         thresholds |->
            [real_human |-> self.real_threshold,
             deepfake |-> self.deepfake_threshold,
             confidence_cutoff |-> self.confidence_cutoff]]

\* DeepfakeScorer.generate_detection_result(error_stats) at time `now`; the
\* dict is a function whose DOMAIN is the set of keys present
DeepfakeScorer_generate_detection_result(self, error_stats, now) ==
    LET mean_error == error_stats.mean_error
        confidence_score == DeepfakeScorer_calculate_confidence_score(mean_error)
        deepfake == DeepfakeScorer_determine_authenticity(confidence_score)
    IN  [timestamp |-> now,
         detection |->
            [is_deepfake |-> deepfake,
             confidence_score |-> confidence_score,
             classification |-> IF deepfake THEN "deepfake" ELSE "real_human"],
         metrics |->
            [mean_reprojection_error |-> mean_error,
             std_reprojection_error |-> error_stats.std_error,
             min_error |-> error_stats.min_error,
             max_error |-> error_stats.max_error,
             cam1_mean_error |-> error_stats.cam1_mean,
             cam2_mean_error |-> error_stats.cam2_mean,
             landmarks_analyzed |-> error_stats.n_landmarks],
         thresholds |->
            [real_human |-> self.real_threshold,
             deepfake |-> self.deepfake_threshold,
             confidence_cutoff |-> self.confidence_cutoff]]

(* Output/scorer.py: save_result_json and save_result_csv                  *)
(*                                                                         *)
(* A CSV file is the sequence of its rows.  A row is the sequence of its    *)
(* cells and records which writer call wrote it: writeheader writes the     *)
(* field names, writerow the text of the values.                            *)

\* str(v), as csv.DictWriter writes a value
py_str(v) == [text_of |-> v]

\* the fieldnames of save_result_csv, in order
CsvFieldnames ==
    <<"timestamp", "is_deepfake", "confidence_score", "mean_error",
      "std_error", "cam1_error", "cam2_error", "landmarks_count">>

\* the row dict of save_result_csv
CsvRow(result) ==
    [timestamp |-> result.timestamp,
     is_deepfake |-> result.detection.is_deepfake,
     confidence_score |-> result.detection.confidence_score,
     mean_error |-> result.metrics.mean_reprojection_error,
     std_error |-> result.metrics.std_reprojection_error,
     cam1_error |-> result.metrics.cam1_mean_error,
     cam2_error |-> result.metrics.cam2_mean_error,
     landmarks_count |-> result.metrics.landmarks_analyzed]

\* csv.DictWriter.writeheader(): the field names
DictWriterHeader(fieldnames) == [header |-> TRUE, cells |-> fieldnames]

\* csv.DictWriter.writerow(row): the cells in the order of the fieldnames
DictWriterRow(fieldnames, row) ==
    [header |-> FALSE,
     cells |-> [k \in 1 .. Len(fieldnames) |-> py_str(row[fieldnames[k]])]]

\* a slip of save_result_csv: the header is written by every call
save_result_csv_header_always(file, result, append) ==
    LET file_exists == file.exists
        mode == IF append /\ file_exists THEN "a" ELSE "w"
        kept == IF mode = "a" THEN file.rows ELSE <<>>
    IN  [exists |-> TRUE,
         rows |-> kept \o <<DictWriterHeader(CsvFieldnames)>>
                       \o <<DictWriterRow(CsvFieldnames, CsvRow(result))>>]

\* save_result_csv(result, output_path, append): the file after the call
save_result_csv(file, result, append) ==
    LET file_exists == file.exists
        mode == IF append /\ file_exists THEN "a" ELSE "w"
        kept == IF mode = "a" THEN file.rows ELSE <<>>
        header == IF ~file_exists \/ ~append THEN <<DictWriterHeader(CsvFieldnames)>>
                  ELSE <<>>
    IN  [exists |-> TRUE,
         rows |-> kept \o header
                       \o <<DictWriterRow(CsvFieldnames, CsvRow(result))>>]

\* save_result_json(result, output_path): the file after the call.  json.dump
\* raises TypeError at a numpy array (the intermediate data of
\* detect_from_frames); the file has then been opened for writing and holds
\* what was written before the array
save_result_json(result) ==
    IF "intermediate_data" \in DOMAIN result
    THEN [exists |-> TRUE, complete |-> FALSE]
    ELSE [exists |-> TRUE, complete |-> TRUE, object |-> result]

\* the return value of save_result_json
save_result_json_ok(result) == "intermediate_data" \notin DOMAIN result

---------------------------------------------------------------------------
(* Comparison/error_calculator.py: class ReprojectionErrorCalculator *)

\* ReprojectionErrorCalculator.__init__
ReprojectionErrorCalculator_init ==
    [real_threshold |-> REAL_HUMAN_THRESHOLD, deepfake_threshold |-> DEEPFAKE_THRESHOLD]

\* the f-string of a reasoning: its wording and the error it formats
Reasoning(wording, mean_error) == [wording |-> wording, mean_error |-> mean_error]

\* ReprojectionErrorCalculator.classify_authenticity(mean_error)
classify_authenticity(self, mean_error) ==
    IF FLt(mean_error, self.real_threshold)
    THEN [is_deepfake |-> FALSE, confidence |-> "high",
          reasoning |-> Reasoning("Low error", mean_error)]
    ELSE IF FGt(mean_error, self.deepfake_threshold)
    THEN [is_deepfake |-> TRUE, confidence |-> "high",
          reasoning |-> Reasoning("High error", mean_error)]
    ELSE [is_deepfake |->
              FGt(mean_error, FDiv(FAdd(self.real_threshold, self.deepfake_threshold), 2)),
          confidence |-> "low",
          reasoning |-> Reasoning("Moderate error", mean_error)]

\* a slip of calculate_per_landmark_error: arrays of different shape are
\* compared over their common rows instead of being rejected
calculate_per_landmark_error_truncating(observed, reprojected) ==
    LET n == IF PyLen(observed) < PyLen(reprojected)
             THEN PyLen(observed) ELSE PyLen(reprojected)
        c == IF observed.shape[2] < reprojected.shape[2]
             THEN observed.shape[2] ELSE reprojected.shape[2]
    IN  Ok([i \in 1 .. n |->
                RowDistance(SubSeq(observed.data[i], 1, c),
                            SubSeq(reprojected.data[i], 1, c))])

\* calculate_per_landmark_error(observed, reprojected)
calculate_per_landmark_error(observed, reprojected) ==
    IF observed.shape # reprojected.shape
    THEN Raised("ValueError: Shape mismatch")
    ELSE Ok([i \in 1 .. PyLen(observed) |->
                RowDistance(observed.data[i], reprojected.data[i])])

\* calculate_mean_error; np.min of an empty array raises ValueError
calculate_mean_error(observed_cam1, reprojected_cam1, observed_cam2, reprojected_cam2) ==
    LET r1 == calculate_per_landmark_error(observed_cam1, reprojected_cam1)
        r2 == calculate_per_landmark_error(observed_cam2, reprojected_cam2)
    IN  IF r1.raised THEN r1
        ELSE IF r2.raised THEN r2
        ELSE LET errors_cam1 == r1.value
                 errors_cam2 == r2.value
                 all_errors == errors_cam1 \o errors_cam2
             IN  IF all_errors = <<>>
                 THEN Raised("ValueError: zero-size array to reduction operation")
                 ELSE Ok([mean_error |-> np_mean(all_errors),
                          std_error |-> np_std(all_errors),
                          min_error |-> np_min(all_errors),
                          max_error |-> np_max(all_errors),
                          cam1_mean |-> np_mean(errors_cam1),
                          cam2_mean |-> np_mean(errors_cam2),
                          errors_cam1 |-> errors_cam1,
                          errors_cam2 |-> errors_cam2,
                          n_landmarks |-> Len(errors_cam1)])

---------------------------------------------------------------------------
(* 2D Detection/landmark_detector.py: class FaceLandmarkDetector           *)
(*                                                                         *)
(* A frame is [none, width, height, faces]: none for Python's None, width  *)
(* and height in pixels (frame.size is 0 when either is 0), and faces the  *)
(* sequence MediaPipe's face_mesh.process finds in it (at most one), each  *)
(* face a sequence of landmarks [x, y] in normalized coordinates, counted  *)
(* in tenths, so that landmark.x * width is in tenths of a pixel.          *)

\* config.KEY_LANDMARKS (USE_ALL_LANDMARKS is False): mesh indices, from 1
KEY_LANDMARKS == <<1, 2>>

\* config.get_landmark_indices
get_landmark_indices == KEY_LANDMARKS

\* FaceLandmarkDetector.__init__(landmark_indices=None)
FaceLandmarkDetector_init == [landmark_indices |-> get_landmark_indices]

\* FaceLandmarkDetector.detect_landmarks(frame)
detect_landmarks(self, frame) ==
    IF frame.none \/ frame.width * frame.height = 0
    THEN Raised("ValueError: Invalid frame provided")
    ELSE IF frame.faces = <<>>
    THEN Ok(PyNone)
    ELSE LET face_landmarks == frame.faces[1]
             idxs == self.landmark_indices
         IN  IF \E k \in 1 .. Len(idxs) : idxs[k] > Len(face_landmarks)
             THEN Raised("ValueError: Landmark index out of range")
             ELSE Ok(NdArray([k \in 1 .. Len(idxs) |->
                                <<face_landmarks[idxs[k]].x * frame.width,
                                  face_landmarks[idxs[k]].y * frame.height>>], 2))

\* a slip of detect_landmarks_pair: a view without a face is reported by
\* raising instead of by returning (None, None)
detect_landmarks_pair_raising(self, frame_front, frame_side) ==
    LET r_front == detect_landmarks(self, frame_front)
        r_side == detect_landmarks(self, frame_side)
    IN  IF r_front.raised THEN r_front
        ELSE IF r_side.raised THEN r_side
        ELSE IF IsNone(r_front.value) \/ IsNone(r_side.value)
        THEN Raised("ValueError: No face detected")
        ELSE IF PyLen(r_front.value) # PyLen(r_side.value)
        THEN Raised("ValueError: Landmark count mismatch")
        ELSE Ok(<<r_front.value, r_side.value>>)

\* a slip of detect_landmarks_pair: the side view is not looked at before
\* the return
detect_landmarks_pair_front_only(self, frame_front, frame_side) ==
    LET r_front == detect_landmarks(self, frame_front)
        r_side == detect_landmarks(self, frame_side)
    IN  IF r_front.raised THEN r_front
        ELSE IF r_side.raised THEN r_side
        ELSE IF IsNone(r_front.value) THEN Ok(<<PyNone, PyNone>>)
        ELSE Ok(<<r_front.value, r_side.value>>)

\* FaceLandmarkDetector.detect_landmarks_pair(frame_front, frame_side): both
\* detections run before either result is looked at
detect_landmarks_pair(self, frame_front, frame_side) ==
    LET r_front == detect_landmarks(self, frame_front)
        r_side == detect_landmarks(self, frame_side)
    IN  IF r_front.raised THEN r_front
        ELSE IF r_side.raised THEN r_side
        ELSE IF IsNone(r_front.value) THEN Ok(<<PyNone, PyNone>>)
        ELSE IF IsNone(r_side.value) THEN Ok(<<PyNone, PyNone>>)
        ELSE IF PyLen(r_front.value) # PyLen(r_side.value)
        THEN Raised("ValueError: Landmark count mismatch")
        ELSE Ok(<<r_front.value, r_side.value>>)

---------------------------------------------------------------------------
(* 3D Estimation/triangulator.py: class StereoTriangulator                 *)
(*                                                                         *)
(* The loaded calibration is a rectified pair: both cameras have focal     *)
(* length 10 and principal point (0, 0), no lens distortion, R = I and     *)
(* T = (-20, 0, 0), so P1 = K1 [I | 0] and P2 = K2 [R | T].                *)

StereoCalibration ==
    [K1 |-> << <<10, 0, 0>>, <<0, 10, 0>>, <<0, 0, 1>> >>,
     K2 |-> << <<10, 0, 0>>, <<0, 10, 0>>, <<0, 0, 1>> >>,
     dist1 |-> 0,
     dist2 |-> 0,
     R |-> << <<1, 0, 0>>, <<0, 1, 0>>, <<0, 0, 1>> >>,
     T |-> <<-20, 0, 0>>,
     P1 |-> << <<10, 0, 0, 0>>, <<0, 10, 0, 0>>, <<0, 0, 1, 0>> >>,
     P2 |-> << <<10, 0, 0, -200>>, <<0, 10, 0, 0>>, <<0, 0, 1, 0>> >>]

\* StereoTriangulator.__init__: the calibration parameters are extracted
StereoTriangulator_init == StereoCalibration

\* cv2.undistortPoints(p, K, dist, None, K) on one point: normalize by K,
\* remove the radial distortion dist (first order), project by K again
cv2_undistortPoint(p, K, dist) ==
    LET xn == FDiv(FSub(p[1], K[1][3]), K[1][1])
        yn == FDiv(FSub(p[2], K[2][3]), K[2][2])
        r2 == FAdd(FMul(xn, xn), FMul(yn, yn))
        xu == FSub(xn, FMul(dist, FMul(r2, xn)))
        yu == FSub(yn, FMul(dist, FMul(r2, yn)))
    IN  <<FAdd(FMul(xu, K[1][1]), K[1][3]), FAdd(FMul(yu, K[2][2]), K[2][3])>>

\* StereoTriangulator.undistort_points
undistort_points(self, points_cam1, points_cam2) ==
    <<NdArray([i \in 1 .. PyLen(points_cam1) |->
                  cv2_undistortPoint(points_cam1.data[i], self.K1, self.dist1)], 2),
      NdArray([i \in 1 .. PyLen(points_cam2) |->
                  cv2_undistortPoint(points_cam2.data[i], self.K2, self.dist2)], 2)>>

\* cv2.triangulatePoints(P1, P2, p1, p2) on one correspondence of a rectified
\* pair, as a homogeneous 4-vector: the rays meet at disparity x1 - x2, and
\* rows that disagree are met at their mean
cv2_triangulatePoint(P1, P2, p1, p2) ==
    LET f == P1[1][1]
        b == 0 - P2[1][4]
        d == FSub(p1[1], p2[1])
    IN  <<FMul(2 * b, p1[1]),
          FMul(b, FAdd(p1[2], p2[2])),
          2 * f * b,
          FMul(2 * f, d)>>

\* points_4d_homogeneous[:3, :] / points_4d_homogeneous[3, :], transposed
homogeneous_to_3d(points_4d_homogeneous) ==
    [i \in 1 .. Len(points_4d_homogeneous) |->
        LET h == points_4d_homogeneous[i]
        IN  <<FDiv(h[1], h[4]), FDiv(h[2], h[4]), FDiv(h[3], h[4])>>]

\* a slip of triangulate's length check: only a longer first array is
\* rejected
landmark_count_mismatch_one_sided(landmarks_cam1, landmarks_cam2) ==
    PyLen(landmarks_cam1) > PyLen(landmarks_cam2)

\* StereoTriangulator.triangulate: len(landmarks_cam1) != len(landmarks_cam2)
landmark_count_mismatch(landmarks_cam1, landmarks_cam2) ==
    PyLen(landmarks_cam1) # PyLen(landmarks_cam2)

\* P @ [X, Y, Z, 1]^T, one row of P
FDot4(row, v) ==
    FAdd(FAdd(FMul(row[1], v[1]), FMul(row[2], v[2])),
         FAdd(FMul(row[3], v[3]), FMul(row[4], v[4])))

\* a slip of project_3d_to_2d: every selector other than 'cam1' selects P2
project_3d_to_2d_else_cam2(self, points_3d, camera) ==
    LET P == IF camera = "cam1" THEN self.P1 ELSE self.P2
        proj(i) ==
            LET v == points_3d.data[i] \o <<1>>
                h == <<FDot4(P[1], v), FDot4(P[2], v), FDot4(P[3], v)>>
            IN  <<FDiv(h[1], h[3]), FDiv(h[2], h[3])>>
    IN  Ok(NdArray([i \in 1 .. PyLen(points_3d) |-> proj(i)], 2))

\* StereoTriangulator.project_3d_to_2d(points_3d, camera)
project_3d_to_2d(self, points_3d, camera) ==
    IF camera \notin {"cam1", "cam2"}
    THEN Raised("ValueError: camera must be 'cam1' or 'cam2'")
    ELSE LET P == IF camera = "cam1" THEN self.P1 ELSE self.P2
             proj(i) ==
                LET v == points_3d.data[i] \o <<1>>
                    h == <<FDot4(P[1], v), FDot4(P[2], v), FDot4(P[3], v)>>
                IN  <<FDiv(h[1], h[3]), FDiv(h[2], h[3])>>
         IN  Ok(NdArray([i \in 1 .. PyLen(points_3d) |-> proj(i)], 2))

\* StereoTriangulator.reproject_landmarks(points_3d)
reproject_landmarks(self, points_3d) ==
    <<project_3d_to_2d(self, points_3d, "cam1").value,
      project_3d_to_2d(self, points_3d, "cam2").value>>

---------------------------------------------------------------------------
(* detect_deepfake.py: class DeepfakeDetectionPipeline, and the public     *)
(* operations of its components, as one state machine.  A client enters    *)
(* one call (detect_from_frames, triangulate, calculate_mean_error or      *)
(* calculate_per_landmark_error); the call runs statement by statement     *)
(* until it returns or raises.                                             *)

\* datetime.now(): time passes between two readings, up to MaxClock
Tick == IF clock < MaxClock THEN clock + 1 ELSE clock

Pending == [status |-> "pending"]
Returned(v) == [status |-> "returned", value |-> v]
Raising(e) == [status |-> "raised", exc |-> e]

\* the statements after the entered call has ended
Finish(o) ==
    /\ outcome' = o
    /\ pc' = "done"

PipelineIdle ==
    /\ pc = "idle"
    /\ entry = "none"
    /\ args = <<>>
    /\ landmarks = <<>>
    /\ undistorted = <<>>
    /\ cur_points_3d = PyNone
    /\ cur_reprojected = <<>>
    /\ cur_error_stats = PyNone
    /\ outcome = Pending
    /\ steps = <<>>

\* sequences of 0 .. n elements of S
SeqUpTo(S, n) == UNION {[1 .. k -> S] : k \in 0 .. n}

\* the landmarks of a face, normalized coordinates in tenths
MeshPoints == {[x |-> 2, y |-> 0], [x |-> 1, y |-> 0],
               [x |-> 1, y |-> 2], [x |-> 2, y |-> 3]}

\* 10 x 100 pixel frames: None, an empty image, an image without a face and
\* images with one face
Frames ==
    {[none |-> TRUE, width |-> 0, height |-> 0, faces |-> <<>>],
     [none |-> FALSE, width |-> 0, height |-> 100, faces |-> <<>>],
     [none |-> FALSE, width |-> 10, height |-> 100, faces |-> <<>>]}
    \cup {[none |-> FALSE, width |-> 10, height |-> 100, faces |-> <<m>>] :
            m \in [1 .. MeshSize -> MeshPoints]}

\* the pixel positions (tenths of a pixel) a landmark of those frames has
PixelPoints == {<<p.x * 10, p.y * 100>> : p \in MeshPoints}

\* the N x 2 arrays a client may pass to triangulate
LandmarkArrays == {NdArray(rows, 2) : rows \in SeqUpTo(PixelPoints, MaxN)}

\* the arrays a client may pass to the error calculator: N x 2 and N x 3
ErrorArrays ==
    {NdArray(rows, 2) : rows \in SeqUpTo({<<0, 0>>, <<60, 80>>}, MaxN)}
    \cup {NdArray(rows, 3) : rows \in SeqUpTo({<<0, 0, 0>>}, MaxN)}

(* DeepfakeDetectionPipeline.__init__ *)
Detector == FaceLandmarkDetector_init
Triangulator == StereoTriangulator_init
Scorer == DeepfakeScorer_init

\* detect_from_frames(frame_front, frame_side) is entered
CallDetectFromFrames ==
    /\ pc = "idle"
    /\ \E frame_front \in Frames, frame_side \in Frames :
        /\ entry' = "detect_from_frames"
        /\ args' = <<frame_front, frame_side>>
        /\ pc' = "detect"
        /\ UNCHANGED <<landmarks, undistorted, cur_points_3d, cur_reprojected,
                       cur_error_stats, outcome, steps>>
        /\ UNCHANGED <<scorer_vars, clock, calibration_vars, sink_vars, cli_vars, tri_vars>>

\* detect_from_frames, step 1: detect_landmarks_pair, and return None when
\* either view has no landmarks
DetectLandmarks ==
    /\ pc = "detect"
    /\ steps' = Append(steps, "detect_landmarks_pair")
    /\ LET r == detect_landmarks_pair(Detector, args[1], args[2])
       IN  IF r.raised
           THEN Finish(Raising(r.exc)) /\ UNCHANGED landmarks
           ELSE IF IsNone(r.value[1]) \/ IsNone(r.value[2])
           THEN Finish(Returned(PyNone)) /\ UNCHANGED landmarks
           ELSE /\ landmarks' = r.value
                /\ pc' = "tri_check"
                /\ UNCHANGED outcome
    /\ UNCHANGED <<entry, args, undistorted, cur_points_3d, cur_reprojected, cur_error_stats>>
    /\ UNCHANGED <<scorer_vars, clock, calibration_vars, sink_vars, cli_vars, tri_vars>>

\* triangulate(landmarks_cam1, landmarks_cam2, undistort) is entered
CallTriangulate ==
    /\ pc = "idle"
    /\ \E landmarks_cam1 \in LandmarkArrays, landmarks_cam2 \in LandmarkArrays,
           undistort \in BOOLEAN :
        /\ entry' = "triangulate"
        /\ args' = <<undistort>>
        /\ landmarks' = <<landmarks_cam1, landmarks_cam2>>
        /\ pc' = "tri_check"
        /\ UNCHANGED <<undistorted, cur_points_3d, cur_reprojected, cur_error_stats,
                       outcome, steps>>
        /\ UNCHANGED <<scorer_vars, clock, calibration_vars, sink_vars, cli_vars, tri_vars>>

\* undistort is True in detect_from_frames
Undistort == IF entry = "triangulate" THEN args[1] ELSE TRUE

\* triangulate: the length check
TriangulateCheck ==
    /\ pc = "tri_check"
    /\ IF landmark_count_mismatch(landmarks[1], landmarks[2])
       THEN Finish(Raising("ValueError: Landmark count mismatch"))
                /\ UNCHANGED undistorted
       ELSE IF Undistort
       THEN pc' = "tri_undistort" /\ UNCHANGED <<undistorted, outcome>>
       ELSE pc' = "tri_solve" /\ undistorted' = landmarks /\ UNCHANGED outcome
    /\ UNCHANGED <<entry, args, landmarks, cur_points_3d, cur_reprojected, cur_error_stats, steps>>
    /\ UNCHANGED <<scorer_vars, clock, calibration_vars, sink_vars, cli_vars, tri_vars>>

\* OpenCV rejects point arrays it cannot pair, and may reject empty ones
Cv2MustRaise(a, b) == PyLen(a) # PyLen(b)
Cv2MayRaise(a, b) == PyLen(a) = 0 \/ PyLen(b) = 0

\* triangulate: undistort_points
TriangulateUndistort ==
    /\ pc = "tri_undistort"
    /\ steps' = Append(steps, "undistort_points")
    /\ \/ /\ ~Cv2MustRaise(landmarks[1], landmarks[2])
          /\ undistorted' = undistort_points(Triangulator, landmarks[1], landmarks[2])
          /\ pc' = "tri_solve"
          /\ UNCHANGED outcome
       \/ /\ Cv2MustRaise(landmarks[1], landmarks[2])
                \/ Cv2MayRaise(landmarks[1], landmarks[2])
          /\ Finish(Raising("cv2.error"))
          /\ UNCHANGED undistorted
    /\ UNCHANGED <<entry, args, landmarks, cur_points_3d, cur_reprojected, cur_error_stats>>
    /\ UNCHANGED <<scorer_vars, clock, calibration_vars, sink_vars, cli_vars, tri_vars>>

\* the points_3d of triangulate: cv2.triangulatePoints, the division by the
\* homogeneous coordinate, the transpose and astype(np.float32)
Triangulated(self, points_cam1, points_cam2) ==
    NdArray(homogeneous_to_3d(
                [i \in 1 .. PyLen(points_cam1) |->
                    cv2_triangulatePoint(self.P1, self.P2,
                                         points_cam1.data[i], points_cam2.data[i])]), 3)

\* triangulate: cv2.triangulatePoints to the return
TriangulateSolve ==
    /\ pc = "tri_solve"
    /\ steps' = Append(steps, "cv2.triangulatePoints")
    /\ \/ /\ ~Cv2MustRaise(undistorted[1], undistorted[2])
          /\ cur_points_3d' = Triangulated(Triangulator, undistorted[1], undistorted[2])
          /\ IF entry = "triangulate"
             THEN Finish(Returned(cur_points_3d'))
             ELSE pc' = "reproject" /\ UNCHANGED outcome
       \/ /\ Cv2MustRaise(undistorted[1], undistorted[2])
                \/ Cv2MayRaise(undistorted[1], undistorted[2])
          /\ Finish(Raising("cv2.error"))
          /\ UNCHANGED cur_points_3d
    /\ UNCHANGED <<entry, args, landmarks, undistorted, cur_reprojected, cur_error_stats>>
    /\ UNCHANGED <<scorer_vars, clock, calibration_vars, sink_vars, cli_vars, tri_vars>>

\* detect_from_frames, step 3: reproject_landmarks
ReprojectLandmarks ==
    /\ pc = "reproject"
    /\ steps' = Append(steps, "reproject_landmarks")
    /\ cur_reprojected' = reproject_landmarks(Triangulator, cur_points_3d)
    /\ pc' = "errors"
    /\ UNCHANGED <<entry, args, landmarks, undistorted, cur_points_3d, cur_error_stats, outcome>>
    /\ UNCHANGED <<scorer_vars, clock, calibration_vars, sink_vars, cli_vars, tri_vars>>

\* calculate_mean_error(observed_cam1, reprojected_cam1, observed_cam2,
\* reprojected_cam2) is entered
CallCalculateMeanError ==
    /\ pc = "idle"
    /\ \E observed_cam1 \in ErrorArrays, reprojected_cam1 \in ErrorArrays,
           observed_cam2 \in ErrorArrays, reprojected_cam2 \in ErrorArrays :
        /\ entry' = "calculate_mean_error"
        /\ landmarks' = <<observed_cam1, observed_cam2>>
        /\ cur_reprojected' = <<reprojected_cam1, reprojected_cam2>>
        /\ pc' = "errors"
        /\ UNCHANGED <<args, undistorted, cur_points_3d, cur_error_stats, outcome, steps>>
        /\ UNCHANGED <<scorer_vars, clock, calibration_vars, sink_vars, cli_vars, tri_vars>>

\* calculate_mean_error, also step 4 of detect_from_frames
CalculateMeanError ==
    /\ pc = "errors"
    /\ steps' = Append(steps, "calculate_mean_error")
    /\ LET r == calculate_mean_error(landmarks[1], cur_reprojected[1],
                                     landmarks[2], cur_reprojected[2])
       IN  IF r.raised
           THEN Finish(Raising(r.exc)) /\ UNCHANGED cur_error_stats
           ELSE /\ cur_error_stats' = r.value
                /\ IF entry = "calculate_mean_error"
                   THEN Finish(Returned(r.value))
                   ELSE pc' = "score" /\ UNCHANGED outcome
    /\ UNCHANGED <<entry, args, landmarks, undistorted, cur_points_3d, cur_reprojected>>
    /\ UNCHANGED <<scorer_vars, clock, calibration_vars, sink_vars, cli_vars, tri_vars>>

\* calculate_per_landmark_error(observed, reprojected), called by a client
CallCalculatePerLandmarkError ==
    /\ pc = "idle"
    /\ \E observed \in ErrorArrays, reprojected_pts \in ErrorArrays :
        /\ entry' = "calculate_per_landmark_error"
        /\ args' = <<observed, reprojected_pts>>
        /\ steps' = Append(steps, "calculate_per_landmark_error")
        /\ LET r == calculate_per_landmark_error(observed, reprojected_pts)
           IN  IF r.raised THEN Finish(Raising(r.exc)) ELSE Finish(Returned(r.value))
        /\ UNCHANGED <<landmarks, undistorted, cur_points_3d, cur_reprojected, cur_error_stats>>
        /\ UNCHANGED <<scorer_vars, clock, calibration_vars, sink_vars, cli_vars, tri_vars>>

\* a slip of detect_from_frames: the intermediate data replaces the scorer's
\* result instead of being stored in it
WithIntermediateData_replacing(result) ==
    [intermediate_data |->
        [landmarks_front |-> landmarks[1],
         landmarks_side |-> landmarks[2],
         reprojected_front |-> cur_reprojected[1],
         reprojected_side |-> cur_reprojected[2],
         points_3d |-> cur_points_3d]]

\* the N x 3 arrays and the camera selectors a client may pass to
\* project_3d_to_2d
PointArrays ==
    {NdArray(rows, 3) :
        rows \in SeqUpTo({<<20, 10, 10>>, <<-10, 5, 20>>, <<20, 10, 0>>}, MaxN)}
CameraSelectors == {"cam1", "cam2", "cam3", "CAM1", "front"}

\* project_3d_to_2d(points_3d, camera), called by a client
CallProject3dTo2d ==
    /\ pc = "idle"
    /\ \E points \in PointArrays, camera \in CameraSelectors :
        /\ entry' = "project_3d_to_2d"
        /\ args' = <<points, camera>>
        /\ steps' = Append(steps, "project_3d_to_2d")
        /\ LET r == project_3d_to_2d(Triangulator, points, camera)
           IN  IF r.raised THEN Finish(Raising(r.exc)) ELSE Finish(Returned(r.value))
        /\ UNCHANGED <<landmarks, undistorted, cur_points_3d, cur_reprojected, cur_error_stats>>
        /\ UNCHANGED <<scorer_vars, clock, calibration_vars, sink_vars, cli_vars, tri_vars>>

\* the dict detect_from_frames returns: the scorer's result with the
\* intermediate data stored in it
WithIntermediateData(result) ==
    result @@ [intermediate_data |->
                  [landmarks_front |-> landmarks[1],
                   landmarks_side |-> landmarks[2],
                   reprojected_front |-> cur_reprojected[1],
                   reprojected_side |-> cur_reprojected[2],
                   points_3d |-> cur_points_3d]]

\* a slip of detect_from_frames: the result is generated a second time for
\* the return
GenerateResult_scoring_twice ==
    /\ pc = "score"
    /\ steps' = steps \o <<"generate_detection_result", "generate_detection_result">>
    /\ Finish(Returned(WithIntermediateData(
            DeepfakeScorer_generate_detection_result(Scorer, cur_error_stats, clock))))
    /\ clock' = Tick
    /\ UNCHANGED <<entry, args, landmarks, undistorted, cur_points_3d, cur_reprojected,
                   cur_error_stats>>
    /\ UNCHANGED <<scorer_vars, calibration_vars, sink_vars, cli_vars, tri_vars>>

\* detect_from_frames, step 5: generate_detection_result, to the return
GenerateResult ==
    /\ pc = "score"
    /\ steps' = Append(steps, "generate_detection_result")
    /\ Finish(Returned(WithIntermediateData(
            DeepfakeScorer_generate_detection_result(Scorer, cur_error_stats, clock))))
    /\ clock' = Tick
    /\ UNCHANGED <<entry, args, landmarks, undistorted, cur_points_3d, cur_reprojected,
                   cur_error_stats>>
    /\ UNCHANGED <<scorer_vars, calibration_vars, sink_vars, cli_vars, tri_vars>>

(* detect_deepfake.py: main, the command line.  A path named on the command *)
(* line is the file there: whether it exists and the image cv2.imread       *)
(* returns for it (None when it is not an image); a calibration file is     *)
(* "missing", "corrupt" or "valid".                                         *)

CliIdle ==
    /\ cli_pc = "off"
    /\ cli_args = PyNone
    /\ exit_code = -1
    /\ close_calls = 0

\* what --calibration may name
CalibrationFiles == {"missing", "corrupt", "valid"}

\* DeepfakeDetectionPipeline(calibration_path): StereoTriangulator raises
\* FileNotFoundError when the file does not exist, and np.load or the key
\* lookups raise when it is not a calibration archive
DeepfakeDetectionPipeline_init(calibration) ==
    IF calibration = "missing" THEN Raised("FileNotFoundError")
    ELSE IF calibration = "corrupt" THEN Raised("ValueError: not a calibration archive")
    ELSE Ok([detector |-> Detector, triangulator |-> Triangulator, scorer |-> Scorer])

\* a path without a file, a file that is not an image, a file with an image
MissingFile == [none |-> FALSE, exists |-> FALSE]
UnreadableFile == [none |-> FALSE, exists |-> TRUE, image |-> PyNone]
ImageFile(image) == [none |-> FALSE, exists |-> TRUE, image |-> image]

\* the images cv2.imread returns: 10 x 100 or 20 x 100 pixels
Images ==
    {f \in Frames : ~f.none /\ f.width > 0}
    \cup {[none |-> FALSE, width |-> 20, height |-> 100, faces |-> <<>>]}

\* what --front and --side may name
ImageFiles == {MissingFile, UnreadableFile} \cup {ImageFile(f) : f \in Images}

\* frame_loader.load_image(image_path)
load_image(image_path) ==
    IF ~image_path.exists THEN Raised("FileNotFoundError")
    ELSE LET image == image_path.image
         IN  IF IsNone(image) THEN Raised("ValueError: Failed to load image")
             ELSE Ok(image)

\* frame_loader.load_frame_pair(front_view_path, side_view_path)
load_frame_pair(front_view_path, side_view_path) ==
    LET frame_front == load_image(front_view_path)
        frame_side == load_image(side_view_path)
    IN  IF frame_front.raised THEN frame_front
        ELSE IF frame_side.raised THEN frame_side
        ELSE IF <<frame_front.value.height, frame_front.value.width>>
                  # <<frame_side.value.height, frame_side.value.width>>
        THEN Raised("ValueError: Frame dimensions mismatch")
        ELSE Ok(<<frame_front.value, frame_side.value>>)

\* a screenshot image: its left and right halves, or an image of odd width
SplitImage(l, r) == [none |-> FALSE, odd |-> FALSE, left |-> l, right |-> r]
OddImage == [none |-> FALSE, odd |-> TRUE]

\* what --screenshot may name
Screenshots ==
    {MissingFile, UnreadableFile, ImageFile(OddImage)}
    \cup {ImageFile(SplitImage(f, f)) : f \in Images}
    \cup {ImageFile(SplitImage(f, g)) :
            f \in {h \in Images : h.faces # <<>>},
            g \in {h \in Images : h.faces = <<>> /\ h.width = 10}}

\* frame_loader.load_and_split_zoom_screenshot(screenshot_path, 'side_by_side',
\* front_camera), with split_side_by_side_image
load_and_split_zoom_screenshot(screenshot_path, front_camera) ==
    IF ~screenshot_path.exists THEN Raised("FileNotFoundError")
    ELSE LET image == screenshot_path.image
         IN  IF IsNone(image) THEN Raised("ValueError: Failed to load image")
             ELSE IF image.odd THEN Raised("ValueError: Image width is odd")
             ELSE IF front_camera = "left" THEN Ok(<<image.left, image.right>>)
             ELSE IF front_camera = "right" THEN Ok(<<image.right, image.left>>)
             ELSE Raised("ValueError: front_camera must be 'left' or 'right'")

\* the command lines: --screenshot with --front-camera, or --front and
\* --side, each with --calibration and the two output options
CommandLines ==
    {[screenshot |-> s, front_camera |-> c, calibration |-> k,
      output_json |-> j, output_csv |-> v] :
        s \in Screenshots, c \in {"left", "right", "top"},
        k \in CalibrationFiles, j \in BOOLEAN, v \in BOOLEAN}
    \cup {[screenshot |-> PyNone, front |-> f, side |-> g, calibration |-> k,
           output_json |-> j, output_csv |-> v] :
        f \in ImageFiles, g \in ImageFiles,
        k \in CalibrationFiles, j \in BOOLEAN, v \in BOOLEAN}

\* the frames main loads before it calls detect_from_frames
LoadFrames(a) ==
    IF IsNone(a.screenshot)
    THEN load_frame_pair(a.front, a.side)
    ELSE load_and_split_zoom_screenshot(a.screenshot, a.front_camera)

\* a slip of main: pipeline.close() at the end of the try block instead of
\* in a finally clause, so that only a run that saved its outputs closes
Exit_close_in_try(status, constructed) ==
    /\ cli_pc' = "exited"
    /\ exit_code' = status
    /\ close_calls' = IF constructed /\ status = 0 THEN close_calls + 1 ELSE close_calls

\* main ends: the exit status, and pipeline.close() in the finally clause
\* when the pipeline was constructed
Exit(status, constructed) ==
    /\ cli_pc' = "exited"
    /\ exit_code' = status
    /\ close_calls' = IF constructed THEN close_calls + 1 ELSE close_calls

\* main, to the call of detect_from_frames: a pipeline that cannot be
\* constructed exits with status 1 (sys.exit(1) for FileNotFoundError, the
\* interpreter's status for an uncaught exception); an exception of the
\* loader is caught by `except Exception`, which exits with status 1
CallMain ==
    /\ pc = "idle"
    /\ cli_pc = "off"
    /\ \E a \in CommandLines :
        /\ cli_args' = a
        /\ IF DeepfakeDetectionPipeline_init(a.calibration).raised
           THEN /\ Exit(1, FALSE)
                /\ entry' = "main"
                /\ pc' = "done"
                /\ UNCHANGED args
           ELSE IF LoadFrames(a).raised
           THEN /\ Exit(1, TRUE)
                /\ entry' = "main"
                /\ pc' = "done"
                /\ UNCHANGED args
           ELSE /\ cli_pc' = "detecting"
                /\ entry' = "detect_from_frames"
                /\ args' = LoadFrames(a).value
                /\ pc' = "detect"
                /\ UNCHANGED <<exit_code, close_calls>>
    /\ UNCHANGED <<landmarks, undistorted, cur_points_3d, cur_reprojected,
                   cur_error_stats, outcome, steps>>
    /\ UNCHANGED <<scorer_vars, clock, calibration_vars, sink_vars, tri_vars>>

\* `result is None` for what detect_from_frames returned: None or a dict
ResultIsNone(result) == "none" \in DOMAIN result /\ result.none

\* a slip of main: a run without a result exits with status 0
ExitCode_zero_without_result(o) ==
    IF o.status = "raised" THEN 1
    ELSE IF ResultIsNone(o.value) THEN 0
    ELSE IF o.value.detection.is_deepfake THEN 1 ELSE 0

\* main: the exit status after detect_from_frames ended as o
ExitCode(o) ==
    IF o.status = "raised" THEN 1
    ELSE IF ResultIsNone(o.value) THEN 1
    ELSE IF o.value.detection.is_deepfake THEN 1 ELSE 0

\* main, after detect_from_frames: exit with 1 without a result; else save
\* the result as asked and exit with the status of the classification
MainAfterDetection ==
    /\ cli_pc = "detecting"
    /\ pc = "done"
    /\ Exit(ExitCode(outcome), TRUE)
    /\ IF outcome.status = "raised" \/ ResultIsNone(outcome.value)
       THEN UNCHANGED sink_vars
       ELSE LET result == outcome.value
                json_call == [fn |-> "save_result_json", result |-> result,
                              append |-> FALSE, ret |-> save_result_json_ok(result)]
                csv_call == [fn |-> "save_result_csv", result |-> result,
                             append |-> TRUE, ret |-> TRUE]
            IN  /\ json_file' = IF cli_args.output_json
                                THEN save_result_json(result) ELSE json_file
                /\ csv_file' = IF cli_args.output_csv
                               THEN save_result_csv(csv_file, result, TRUE)
                               ELSE csv_file
                /\ sink_calls' = sink_calls
                       \o (IF cli_args.output_json THEN <<json_call>> ELSE <<>>)
                       \o (IF cli_args.output_csv THEN <<csv_call>> ELSE <<>>)
    /\ UNCHANGED <<cli_args, pipeline_vars>>
    /\ UNCHANGED <<scorer_vars, clock, calibration_vars, tri_vars>>

PipelineNext ==
    \/ CallMain
    \/ MainAfterDetection
    \/ CallDetectFromFrames
    \/ DetectLandmarks
    \/ CallTriangulate
    \/ TriangulateCheck
    \/ TriangulateUndistort
    \/ TriangulateSolve
    \/ ReprojectLandmarks
    \/ CallCalculateMeanError
    \/ CalculateMeanError
    \/ CallCalculatePerLandmarkError
    \/ CallProject3dTo2d
    \/ GenerateResult

---------------------------------------------------------------------------
(* 3D Estimation/triangulator.py: a StereoTriangulator instance and the    *)
(* calls a client makes on it.  A call is modelled by its effect: the      *)
(* instance and the argument arrays after the call, and what it returned   *)
(* or raised.                                                              *)

Effect(self, inputs, result) == [self |-> self, inputs |-> inputs, result |-> result]

\* StereoTriangulator.undistort_points(points_cam1, points_cam2)
StereoTriangulator_undistort_points(self, points_cam1, points_cam2) ==
    Effect(self, <<points_cam1, points_cam2>>,
           IF Cv2MustRaise(points_cam1, points_cam2) THEN Raised("cv2.error")
           ELSE Ok(undistort_points(self, points_cam1, points_cam2)))

\* a slip of triangulate: the landmarks are undistorted in place
StereoTriangulator_triangulate_in_place(self, landmarks_cam1, landmarks_cam2, undistort) ==
    IF landmark_count_mismatch(landmarks_cam1, landmarks_cam2)
    THEN Effect(self, <<landmarks_cam1, landmarks_cam2>>,
                Raised("ValueError: Landmark count mismatch"))
    ELSE LET points == IF undistort
                       THEN undistort_points(self, landmarks_cam1, landmarks_cam2)
                       ELSE <<landmarks_cam1, landmarks_cam2>>
         IN  Effect(self, points, Ok(Triangulated(self, points[1], points[2])))

\* StereoTriangulator.triangulate(landmarks_cam1, landmarks_cam2, undistort)
StereoTriangulator_triangulate(self, landmarks_cam1, landmarks_cam2, undistort) ==
    IF landmark_count_mismatch(landmarks_cam1, landmarks_cam2)
    THEN Effect(self, <<landmarks_cam1, landmarks_cam2>>,
                Raised("ValueError: Landmark count mismatch"))
    ELSE LET points == IF undistort
                       THEN undistort_points(self, landmarks_cam1, landmarks_cam2)
                       ELSE <<landmarks_cam1, landmarks_cam2>>
         IN  Effect(self, <<landmarks_cam1, landmarks_cam2>>,
                    Ok(Triangulated(self, points[1], points[2])))

\* StereoTriangulator.project_3d_to_2d(points_3d, camera)
StereoTriangulator_project_3d_to_2d(self, points_3d, camera) ==
    Effect(self, <<points_3d>>, project_3d_to_2d(self, points_3d, camera))

\* StereoTriangulator.reproject_landmarks(points_3d)
StereoTriangulator_reproject_landmarks(self, points_3d) ==
    Effect(self, <<points_3d>>, Ok(reproject_landmarks(self, points_3d)))

TriangulatorIdle ==
    /\ tri_self = PyNone
    /\ tri_log = <<>>

\* the calibrations a file may hold: the rectified pair without lens
\* distortion, and the same pair with radial distortion in both cameras
LoadedCalibrations ==
    {StereoCalibration @@ [none |-> FALSE],
     [StereoCalibration EXCEPT !.dist1 = 1, !.dist2 = 1] @@ [none |-> FALSE]}

\* points in front of both cameras, whose projections are whole numbers
Points3D == {<<20, 0, 10>>, <<20, 40, 20>>, <<40, 40, 20>>}

\* the synthetic point clouds: Nx3 arrays of 1 .. MaxCloud points
Clouds == {NdArray(rows, 3) : rows \in SeqUpTo(Points3D, MaxCloud) \ {<<>>}}

\* the noise-free observations of a point cloud: its projections by P1 and P2
Observed(self, cloud) == reproject_landmarks(self, cloud)

\* the landmark pairs a client passes: the noise-free observations of a
\* cloud, and the first view of a cloud with the second view of another
LandmarkPairs(self) ==
    {Observed(self, c) : c \in Clouds}
    \cup {<<Observed(self, c)[1], Observed(self, NdArray(<<<<20, 0, 10>>>>, 3))[2]>> :
            c \in Clouds}

\* the point clouds a client passes on: the synthetic ones and those that
\* the logged calls of triangulate returned
PassedClouds ==
    Clouds \cup {tri_log[k].result.value :
                    k \in {j \in 1 .. Len(tri_log) :
                            /\ tri_log[j].fn = "triangulate"
                            /\ ~tri_log[j].result.raised}}

\* the log after a call: a first call is kept, any number of calls after
\* it are not, and a later call is kept as the second
Logged(call) ==
    IF tri_log = <<>> THEN {<<call>>}
    ELSE {tri_log, Append(tri_log, call)}

\* the instance and the log after the call fn(args) had the effect e
AfterCall(fn, call_args, e) ==
    /\ tri_self' = e.self
    /\ tri_log' \in Logged([fn |-> fn, args |-> call_args, self_before |-> tri_self,
                            self_after |-> e.self, args_after |-> e.inputs,
                            result |-> e.result])
    /\ UNCHANGED <<scorer_vars, clock, pipeline_vars, calibration_vars, sink_vars,
                   cli_vars>>

\* StereoTriangulator(calibration_path)
ConstructTriangulator ==
    /\ IsNone(tri_self)
    /\ \E calibration \in LoadedCalibrations : tri_self' = calibration
    /\ UNCHANGED tri_log
    /\ UNCHANGED <<scorer_vars, clock, pipeline_vars, calibration_vars, sink_vars,
                   cli_vars>>

TriCallTriangulate ==
    /\ ~IsNone(tri_self)
    /\ Len(tri_log) < 2
    /\ \E pair \in LandmarkPairs(tri_self), undistort \in BOOLEAN :
        AfterCall("triangulate", <<pair[1], pair[2], undistort>>,
                  StereoTriangulator_triangulate(tri_self, pair[1], pair[2], undistort))

TriCallUndistortPoints ==
    /\ ~IsNone(tri_self)
    /\ Len(tri_log) < 2
    /\ \E pair \in LandmarkPairs(tri_self) :
        AfterCall("undistort_points", <<pair[1], pair[2]>>,
                  StereoTriangulator_undistort_points(tri_self, pair[1], pair[2]))

TriCallProject3dTo2d ==
    /\ ~IsNone(tri_self)
    /\ Len(tri_log) < 2
    /\ \E points_3d \in PassedClouds, camera \in {"cam1", "cam2", "front"} :
        AfterCall("project_3d_to_2d", <<points_3d, camera>>,
                  StereoTriangulator_project_3d_to_2d(tri_self, points_3d, camera))

TriCallReprojectLandmarks ==
    /\ ~IsNone(tri_self)
    /\ Len(tri_log) < 2
    /\ \E points_3d \in PassedClouds :
        AfterCall("reproject_landmarks", <<points_3d>>,
                  StereoTriangulator_reproject_landmarks(tri_self, points_3d))

TriangulatorNext ==
    \/ ConstructTriangulator
    \/ TriCallTriangulate
    \/ TriCallUndistortPoints
    \/ TriCallProject3dTo2d
    \/ TriCallReprojectLandmarks

---------------------------------------------------------------------------
(* 2. Calibration/stereo_calibrate.py: class StereoCalibrator and main     *)
(*                                                                         *)
(* An image path is named by what cv2.imread and findChessboardCorners     *)
(* make of the file: "unreadable" (imread returns None), "blank" (no       *)
(* checkerboard found) or "board" (checkerboard found).  Images are        *)
(* 64 x 48.  An exception is a record of its type and of what its message  *)
(* names.                                                                  *)

\* 2. Calibration/config.py
MIN_CALIBRATION_IMAGES == 10

ImageKinds == {"unreadable", "blank", "board"}

\* cv2.imread(img_path): None, or an image of shape (48, 64, 3)
cv2_imread(img_path) ==
    IF img_path = "unreadable" THEN PyNone
    ELSE [none |-> FALSE, shape |-> <<48, 64, 3>>, board |-> img_path = "board"]

\* StereoCalibrator.find_checkerboard_corners(image): the success flag
find_checkerboard_corners(image) == image.board

\* a slip of the loop: every readable image counts, detected or not
DetectedIndices_counting_readable(image_paths) ==
    LET Readable(idx) == ~IsNone(cv2_imread(image_paths[idx + 1]))
    IN  SelectSeq([i \in 1 .. Len(image_paths) |-> i - 1], Readable)

\* the valid_indices of calibrate_single_camera's loop: the indices (from 0)
\* of the images that were read and in which the checkerboard was found
DetectedIndices(image_paths) ==
    LET Detected(idx) ==
            LET image == cv2_imread(image_paths[idx + 1])
            IN  IF IsNone(image) THEN FALSE ELSE find_checkerboard_corners(image)
    IN  SelectSeq([i \in 1 .. Len(image_paths) |-> i - 1], Detected)

\* calibrate_single_camera(image_paths, camera_name), to the count check:
\* valid_indices, or the ValueError
calibrate_single_camera(image_paths, camera_name) ==
    LET valid_indices == DetectedIndices(image_paths)
    IN  IF Len(valid_indices) < MIN_CALIBRATION_IMAGES
        THEN Raised([type |-> "ValueError",
                     message |-> "Not enough valid calibration images",
                     camera |-> camera_name,
                     found |-> Len(valid_indices),
                     need |-> MIN_CALIBRATION_IMAGES])
        ELSE Ok(valid_indices)

\* self.image_size after the loop: set from the first readable image if it
\* was None, as (shape[1], shape[0])
ImageSizeAfter(size, image_paths) ==
    IF ~IsNone(size) THEN size
    ELSE IF \A i \in 1 .. Len(image_paths) : IsNone(cv2_imread(image_paths[i]))
    THEN PyNone
    ELSE LET first == CHOOSE i \in 1 .. Len(image_paths) :
                        /\ ~IsNone(cv2_imread(image_paths[i]))
                        /\ \A j \in 1 .. i - 1 : IsNone(cv2_imread(image_paths[j]))
             image == cv2_imread(image_paths[first])
         IN  [none |-> FALSE, tuple |-> <<image.shape[2], image.shape[1]>>]

\* a slip of the synchronization: the frames either camera detected
common_indices_either(valid_idx1, valid_idx2) ==
    {valid_idx1[i] : i \in 1 .. Len(valid_idx1)}
        \cup {valid_idx2[i] : i \in 1 .. Len(valid_idx2)}

\* calibrate_stereo: set(valid_idx1) & set(valid_idx2)
common_indices(valid_idx1, valid_idx2) ==
    {valid_idx1[i] : i \in 1 .. Len(valid_idx1)}
        \cap {valid_idx2[i] : i \in 1 .. Len(valid_idx2)}

\* the camera matrices cv2.calibrateCamera may find
CameraMatrices ==
    {<< <<10, 0, 0>>, <<0, 10, 0>>, <<0, 0, 1>> >>,
     << <<12, 0, 0>>, <<0, 12, 0>>, <<0, 0, 1>> >>}

\* 2. Calibration/config.py, in tenths of a pixel
MAX_CALIBRATION_ERROR == 10

\* what cv2.calibrateCamera may find: a camera matrix, and the mean
\* reprojection error (tenths) that the loop after it computes
CameraSolutions ==
    {[camera_matrix |-> K, mean_error |-> e] :
        K \in CameraMatrices, e \in {MAX_CALIBRATION_ERROR, MAX_CALIBRATION_ERROR + 5}}

\* a slip: an error above the threshold aborts the calibration
check_mean_error_aborting(mean_error, camera_name) ==
    IF FGt(mean_error, MAX_CALIBRATION_ERROR)
    THEN Raised([type |-> "ValueError",
                 message |-> "Reprojection error exceeds threshold",
                 camera |-> camera_name])
    ELSE Ok(<<>>)

\* calibrate_single_camera, after cv2.calibrateCamera: the warnings printed
\* for the mean reprojection error
check_mean_error(mean_error, camera_name) ==
    IF FGt(mean_error, MAX_CALIBRATION_ERROR)
    THEN Ok(<<[camera |-> camera_name, mean_error |-> mean_error]>>)
    ELSE Ok(<<>>)

\* sorted(S) for a set of ints
RECURSIVE sorted(_)
sorted(S) ==
    IF S = {} THEN <<>>
    ELSE LET least == CHOOSE x \in S : \A y \in S : x <= y
         IN  <<least>> \o sorted(S \ {least})

\* the corners find_checkerboard_corners returns for an image: those of
\* the board in image idx of a camera's list
Corners(camera, idx) == [camera |-> camera, idx |-> idx]

\* a slip of the pairing loop: camera 2's corners are taken from the next
\* synchronized index
RECURSIVE StereoPairs_shifted(_, _, _)
StereoPairs_shifted(images_cam1, images_cam2, indices) ==
    IF indices = <<>> THEN <<>>
    ELSE LET idx == Head(indices)
             idx2 == IF Len(indices) > 1 THEN indices[2] ELSE idx
             img1 == cv2_imread(images_cam1[idx + 1])
             img2 == cv2_imread(images_cam2[idx2 + 1])
             ret1 == find_checkerboard_corners(img1)
             ret2 == find_checkerboard_corners(img2)
             rest == StereoPairs_shifted(images_cam1, images_cam2, Tail(indices))
         IN  IF ret1 /\ ret2
             THEN <<[objp |-> "objp", corners1 |-> Corners(1, idx),
                     corners2 |-> Corners(2, idx2)]>> \o rest
             ELSE rest

\* calibrate_stereo, the loop over common_indices: objpoints_stereo,
\* imgpoints_cam1_stereo and imgpoints_cam2_stereo, element by element
RECURSIVE StereoPairs(_, _, _)
StereoPairs(images_cam1, images_cam2, indices) ==
    IF indices = <<>> THEN <<>>
    ELSE LET idx == Head(indices)
             img1 == cv2_imread(images_cam1[idx + 1])
             img2 == cv2_imread(images_cam2[idx + 1])
             ret1 == find_checkerboard_corners(img1)
             ret2 == find_checkerboard_corners(img2)
             rest == StereoPairs(images_cam1, images_cam2, Tail(indices))
         IN  IF ret1 /\ ret2
             THEN <<[objp |-> "objp", corners1 |-> Corners(1, idx),
                     corners2 |-> Corners(2, idx)]>> \o rest
             ELSE rest

\* what cv2.stereoCalibrate may find: R, T, E, F and the RMS error (tenths)
StereoSolutions ==
    {[R |-> << <<1, 0, 0>>, <<0, 1, 0>>, <<0, 0, 1>> >>,
      T |-> << <<-20>>, <<0>>, <<0>> >>,
      E |-> << <<0, 0, 0>>, <<0, 0, 20>>, <<0, -20, 0>> >>,
      F |-> << <<0, 0, 0>>, <<0, 0, 2>>, <<0, -2, 0>> >>,
      ret |-> 3],
     [R |-> << <<1, 0, 0>>, <<0, 1, 0>>, <<0, 0, 1>> >>,
      T |-> << <<-30>>, <<0>>, <<0>> >>,
      E |-> << <<0, 0, 0>>, <<0, 0, 30>>, <<0, -30, 0>> >>,
      F |-> << <<0, 0, 0>>, <<0, 0, 3>>, <<0, -3, 0>> >>,
      ret |-> 7]}

\* A @ B for a 3 x 3 matrix A and a 3 x 4 matrix B
MatMul(A, B) ==
    [i \in 1 .. 3 |->
        [j \in 1 .. 4 |-> A[i][1] * B[1][j] + A[i][2] * B[2][j] + A[i][3] * B[3][j]]]

\* np.hstack([R, T]) for a 3 x 3 matrix R and a 3 x 1 matrix T
HStack(R, T) == [i \in 1 .. 3 |-> R[i] \o T[i]]

\* the calibration_results dict of calibrate_stereo
CalibrationResults(K1, K2, sol, size) ==
    [K1 |-> K1,
     K2 |-> K2,
     dist1 |-> <<0, 0, 0, 0, 0>>,
     dist2 |-> <<0, 0, 0, 0, 0>>,
     R |-> sol.R,
     T |-> sol.T,
     E |-> sol.E,
     F |-> sol.F,
     P1 |-> MatMul(K1, HStack(<< <<1, 0, 0>>, <<0, 1, 0>>, <<0, 0, 1>> >>,
                                << <<0>>, <<0>>, <<0>> >>)),
     P2 |-> MatMul(K2, HStack(sol.R, sol.T)),
     image_size |-> size,
     rms_error |-> sol.ret,
     checkerboard_size |-> [none |-> FALSE, tuple |-> <<10, 7>>],
     square_size |-> 15]

(* Files.  A path is a stem and whether it ends in ".npz"; np.savez appends *)
(* ".npz" to a file name that lacks it.                                    *)

CALIBRATION_DATA_PATH == [none |-> FALSE, stem |-> "stereo_calibration", npz |-> TRUE]

Paths == {CALIBRATION_DATA_PATH, [none |-> FALSE, stem |-> "calib", npz |-> FALSE]}

FileNames == Paths \cup {[p EXCEPT !.npz = TRUE] : p \in Paths}

NoFile == [exists |-> FALSE]

\* np.asarray of a tuple of ints and of a float, as np.savez stores them
np_asarray(tuple) == [none |-> FALSE, ndarray |-> tuple.tuple]
np_asarray0(x) == [none |-> FALSE, ndarray0 |-> x]

\* tuple(a) of a 1-D array and float(a) of a 0-D array
py_tuple(a) == [none |-> FALSE, tuple |-> a.ndarray]
py_float(a) == a.ndarray0

\* a slip of save_calibration: the image size is stored as (height, width)
save_calibration_swapped_size(fs, calibration_results, path) ==
    LET p == IF IsNone(path) THEN CALIBRATION_DATA_PATH ELSE path
        name == [p EXCEPT !.npz = TRUE]
        size == calibration_results.image_size.tuple
    IN  [fs EXCEPT ![name] =
            [exists |-> TRUE,
             K1 |-> calibration_results.K1,
             K2 |-> calibration_results.K2,
             dist1 |-> calibration_results.dist1,
             dist2 |-> calibration_results.dist2,
             R |-> calibration_results.R,
             T |-> calibration_results.T,
             E |-> calibration_results.E,
             F |-> calibration_results.F,
             P1 |-> calibration_results.P1,
             P2 |-> calibration_results.P2,
             image_size |-> [none |-> FALSE, ndarray |-> <<size[2], size[1]>>],
             rms_error |-> np_asarray0(calibration_results.rms_error)]]

\* save_calibration(calibration_results, output_path): the files after it
save_calibration(fs, calibration_results, path) ==
    LET p == IF IsNone(path) THEN CALIBRATION_DATA_PATH ELSE path
        name == [p EXCEPT !.npz = TRUE]
    IN  [fs EXCEPT ![name] =
            [exists |-> TRUE,
             K1 |-> calibration_results.K1,
             K2 |-> calibration_results.K2,
             dist1 |-> calibration_results.dist1,
             dist2 |-> calibration_results.dist2,
             R |-> calibration_results.R,
             T |-> calibration_results.T,
             E |-> calibration_results.E,
             F |-> calibration_results.F,
             P1 |-> calibration_results.P1,
             P2 |-> calibration_results.P2,
             image_size |-> np_asarray(calibration_results.image_size),
             rms_error |-> np_asarray0(calibration_results.rms_error)]]

\* StereoCalibrator.load_calibration(calibration_path), and
\* StereoTriangulator._load_calibration
load_calibration(fs, path) ==
    LET p == IF IsNone(path) THEN CALIBRATION_DATA_PATH ELSE path
    IN  IF ~fs[p].exists
        THEN Raised([type |-> "FileNotFoundError",
                     message |-> "Calibration file not found"])
        ELSE LET data == fs[p]
             IN  Ok([K1 |-> data.K1,
                     K2 |-> data.K2,
                     dist1 |-> data.dist1,
                     dist2 |-> data.dist2,
                     R |-> data.R,
                     T |-> data.T,
                     E |-> data.E,
                     F |-> data.F,
                     P1 |-> data.P1,
                     P2 |-> data.P2,
                     image_size |-> py_tuple(data.image_size),
                     rms_error |-> py_float(data.rms_error)])

(* The calibration as a state machine: a client calls calibrate_stereo and *)
(* may then save and load the result, or runs the CLI's main.              *)

CalibrationIdle ==
    /\ cal_pc = "idle"
    /\ cal_entry = "none"
    /\ images = <<>>
    /\ output_path = PyNone
    /\ valid_idx = <<>>
    /\ image_size = PyNone
    /\ intrinsics = <<>>
    /\ cal_outcome = Pending
    /\ files = [f \in FileNames |-> NoFile]
    /\ loaded = PyNone
    /\ exit_status = -1
    /\ cal_warnings = <<>>
    /\ stereo_pairs = PyNone
    /\ validation = PyNone

\* the image lists: MIN_CALIBRATION_IMAGES - 1 .. MaxImages images, of which
\* the first VaryingImages are of any kind and the others show the board
ImageLists ==
    {[i \in 1 .. n |-> IF i <= VaryingImages THEN head[i] ELSE "board"] :
        n \in (MIN_CALIBRATION_IMAGES - 1) .. MaxImages,
        head \in [1 .. VaryingImages -> ImageKinds]}

\* calibrate_stereo has ended: back to the client, or on in main's try block
CalFinish(o) ==
    /\ cal_outcome' = o
    /\ cal_pc' = IF cal_entry = "main" THEN "main_end" ELSE "done"

\* calibrate_stereo(images_cam1, images_cam2) is called by a client
CallCalibrateStereo ==
    /\ cal_pc = "idle"
    /\ \E images_cam1 \in ImageLists, images_cam2 \in ImageLists :
        /\ cal_entry' = "calibrate_stereo"
        /\ images' = <<images_cam1, images_cam2>>
        /\ cal_pc' = "check"
        /\ UNCHANGED <<output_path, valid_idx, image_size, intrinsics,
                       cal_outcome, files, loaded, exit_status>>
        /\ UNCHANGED <<scorer_vars, clock, pipeline_vars, sink_vars, cli_vars, tri_vars>>
        /\ UNCHANGED calibration_log_vars

\* main with two image directories (or two videos whose frames were
\* extracted): the image lists are built and the try block is entered
CallCalibrationMain ==
    /\ cal_pc = "idle"
    /\ \E images_cam1 \in ImageLists, images_cam2 \in ImageLists, output \in Paths :
        /\ cal_entry' = "main"
        /\ images' = <<images_cam1, images_cam2>>
        /\ output_path' = output
        /\ cal_pc' = "check"
        /\ UNCHANGED <<valid_idx, image_size, intrinsics, cal_outcome, files,
                       loaded, exit_status>>
        /\ UNCHANGED <<scorer_vars, clock, pipeline_vars, sink_vars, cli_vars, tri_vars>>
        /\ UNCHANGED calibration_log_vars

\* main without both inputs of a mode (print_help, sys.exit(1)), or with a
\* video that cannot be opened (the ValueError is not caught)
MainNoImages ==
    /\ cal_pc = "idle"
    /\ cal_entry' = "main"
    /\ exit_status' = 1
    /\ cal_pc' = "done"
    /\ UNCHANGED <<images, output_path, valid_idx, image_size, intrinsics,
                   cal_outcome, files, loaded>>
    /\ UNCHANGED <<scorer_vars, clock, pipeline_vars, sink_vars, cli_vars, tri_vars>>
    /\ UNCHANGED calibration_log_vars

\* calibrate_stereo: the two lists must have the same length
CalibrateStereoCheck ==
    /\ cal_pc = "check"
    /\ IF Len(images[1]) # Len(images[2])
       THEN CalFinish(Raising([type |-> "ValueError",
                 message |-> "Camera 1 and Camera 2 must have same number of images"]))
       ELSE cal_pc' = "cam1" /\ UNCHANGED cal_outcome
    /\ UNCHANGED <<cal_entry, images, output_path, valid_idx, image_size,
                   intrinsics, files, loaded, exit_status>>
    /\ UNCHANGED <<scorer_vars, clock, pipeline_vars, sink_vars, cli_vars, tri_vars>>
    /\ UNCHANGED calibration_log_vars

\* calibrate_single_camera for one camera: the detection loop, the count
\* check, then cv2.calibrateCamera, which finds a camera matrix or fails,
\* and the check of the mean reprojection error
CalibrateCamera(k, camera_name, next) ==
    /\ image_size' = ImageSizeAfter(image_size, images[k])
    /\ LET r == calibrate_single_camera(images[k], camera_name)
       IN  IF r.raised
           THEN /\ CalFinish(Raising(r.exc))
                /\ UNCHANGED <<valid_idx, intrinsics, cal_warnings>>
           ELSE \/ \E sol \in CameraSolutions :
                     LET checked == check_mean_error(sol.mean_error, camera_name)
                     IN  IF checked.raised
                         THEN /\ CalFinish(Raising(checked.exc))
                              /\ UNCHANGED <<valid_idx, intrinsics, cal_warnings>>
                         ELSE /\ intrinsics' = Append(intrinsics, sol.camera_matrix)
                              /\ valid_idx' = Append(valid_idx, r.value)
                              /\ cal_warnings' = cal_warnings \o checked.value
                              /\ cal_pc' = next
                              /\ UNCHANGED cal_outcome
                \/ /\ CalFinish(Raising([type |-> "cv2.error",
                                         message |-> "calibrateCamera"]))
                   /\ UNCHANGED <<valid_idx, intrinsics, cal_warnings>>
    /\ UNCHANGED <<cal_entry, images, output_path, files, loaded, exit_status>>
    /\ UNCHANGED <<scorer_vars, clock, pipeline_vars, sink_vars, cli_vars, tri_vars>>
    /\ UNCHANGED <<stereo_pairs, validation>>

CalibrateCamera1 ==
    /\ cal_pc = "cam1"
    /\ CalibrateCamera(1, "Camera 1 (Front)", "cam2")

CalibrateCamera2 ==
    /\ cal_pc = "cam2"
    /\ CalibrateCamera(2, "Camera 2 (Side)", "sync")

\* calibrate_stereo: the synchronized pairs and their count check
CalibrateStereoSync ==
    /\ cal_pc = "sync"
    /\ LET common == common_indices(valid_idx[1], valid_idx[2])
       IN  IF Cardinality(common) < MIN_CALIBRATION_IMAGES
           THEN CalFinish(Raising([type |-> "ValueError",
                     message |-> "Not enough synchronized pairs for stereo calibration",
                     found |-> Cardinality(common),
                     need |-> MIN_CALIBRATION_IMAGES]))
           ELSE cal_pc' = "solve" /\ UNCHANGED cal_outcome
    /\ UNCHANGED <<cal_entry, images, output_path, valid_idx, image_size,
                   intrinsics, files, loaded, exit_status>>
    /\ UNCHANGED <<scorer_vars, clock, pipeline_vars, sink_vars, cli_vars, tri_vars>>
    /\ UNCHANGED calibration_log_vars

\* calibrate_stereo: cv2.stereoCalibrate on the synchronized pairs, which
\* finds R and T or fails, then the projection matrices and the result
CalibrateStereoSolve ==
    /\ cal_pc = "solve"
    /\ stereo_pairs' =
            [none |-> FALSE,
             pairs |-> StereoPairs(images[1], images[2],
                                   sorted(common_indices(valid_idx[1], valid_idx[2])))]
    /\ \/ \E sol \in StereoSolutions :
            CalFinish(Returned(CalibrationResults(intrinsics[1], intrinsics[2],
                                                  sol, image_size)))
       \/ CalFinish(Raising([type |-> "cv2.error", message |-> "stereoCalibrate"]))
    /\ UNCHANGED <<cal_entry, images, output_path, valid_idx, image_size,
                   intrinsics, files, loaded, exit_status>>
    /\ UNCHANGED <<scorer_vars, clock, pipeline_vars, sink_vars, cli_vars, tri_vars>>
    /\ UNCHANGED <<cal_warnings, validation>>

\* a slip of main: save_calibration in a finally clause
MainEnd_save_always(fs, o, path) ==
    IF o.status = "raised"
    THEN [files |-> [fs EXCEPT ![[path EXCEPT !.npz = TRUE]] = [exists |-> TRUE]],
          exit_status |-> 1]
    ELSE [files |-> save_calibration(fs, o.value, path), exit_status |-> 0]

\* main, after calibrate_stereo: save_calibration and a normal end, or the
\* except clause and sys.exit(1)
MainEnd(fs, o, path) ==
    IF o.status = "raised"
    THEN [files |-> fs, exit_status |-> 1]
    ELSE [files |-> save_calibration(fs, o.value, path), exit_status |-> 0]

CalibrationMainEnd ==
    /\ cal_pc = "main_end"
    /\ LET end == MainEnd(files, cal_outcome, output_path)
       IN  /\ files' = end.files
           /\ exit_status' = end.exit_status
    /\ cal_pc' = "done"
    /\ UNCHANGED <<cal_entry, images, output_path, valid_idx, image_size,
                   intrinsics, cal_outcome, loaded>>
    /\ UNCHANGED <<scorer_vars, clock, pipeline_vars, sink_vars, cli_vars, tri_vars>>
    /\ UNCHANGED calibration_log_vars

\* the client saves the calibration calibrate_stereo returned
CallSaveCalibration ==
    /\ cal_pc = "done"
    /\ cal_entry = "calibrate_stereo"
    /\ cal_outcome.status = "returned"
    /\ \E path \in Paths \cup {PyNone} :
            files' = save_calibration(files, cal_outcome.value, path)
    /\ UNCHANGED <<cal_pc, cal_entry, images, output_path, valid_idx, image_size,
                   intrinsics, cal_outcome, loaded, exit_status>>
    /\ UNCHANGED <<scorer_vars, clock, pipeline_vars, sink_vars, cli_vars, tri_vars>>
    /\ UNCHANGED calibration_log_vars

\* a client loads a calibration
CallLoadCalibration ==
    /\ cal_pc = "done"
    /\ \E path \in FileNames \cup {PyNone} :
            loaded' = [none |-> FALSE, path |-> path,
                       result |-> load_calibration(files, path)]
    /\ UNCHANGED <<cal_pc, cal_entry, images, output_path, valid_idx, image_size,
                   intrinsics, cal_outcome, files, exit_status>>
    /\ UNCHANGED <<scorer_vars, clock, pipeline_vars, sink_vars, cli_vars, tri_vars>>
    /\ UNCHANGED calibration_log_vars

(* 2. Calibration/validate_calibration.py                                  *)
(*                                                                         *)
(* rms_error is in tenths of a pixel, the entries of R in thousandths, T   *)
(* in centimetres and the distortion coefficients in tenths.  A matrix is  *)
(* the sequence of its rows.                                               *)

\* 1.0 as an entry of R
RotationOne == 1000

\* the tolerance 0.01 of check 3, for a product of two entries of R and for
\* a product of three
OrthogonalityTolerance == 10000
DeterminantTolerance == 10000000

\* the baseline range 0.05 .. 2.0 metres of check 4
MinBaseline == 5
MaxBaseline == 200

\* the distortion limit 2.0 of check 5
MaxDistortion == 20

Abs(x) == IF x < 0 THEN 0 - x ELSE x

\* m.shape
Shape(m) == <<Len(m), Len(m[1])>>

\* R.T @ R - np.eye(3)
IdentityError(R) ==
    [i \in 1 .. 3 |-> [j \in 1 .. 3 |->
        R[1][i] * R[1][j] + R[2][i] * R[2][j] + R[3][i] * R[3][j]
            - (IF i = j THEN RotationOne * RotationOne ELSE 0)]]

\* np.linalg.norm(m) < 0.01: the Frobenius norm, compared by its square
\* (an entry at the tolerance already puts the norm at or above it)
NormBelowTolerance(m) ==
    /\ \A i, j \in 1 .. 3 : Abs(m[i][j]) < OrthogonalityTolerance
    /\ m[1][1] * m[1][1] + m[1][2] * m[1][2] + m[1][3] * m[1][3]
         + m[2][1] * m[2][1] + m[2][2] * m[2][2] + m[2][3] * m[2][3]
         + m[3][1] * m[3][1] + m[3][2] * m[3][2] + m[3][3] * m[3][3]
       < OrthogonalityTolerance * OrthogonalityTolerance

\* np.linalg.det(R)
Det3(R) ==
    R[1][1] * (R[2][2] * R[3][3] - R[2][3] * R[3][2])
    - R[1][2] * (R[2][1] * R[3][3] - R[2][3] * R[3][1])
    + R[1][3] * (R[2][1] * R[3][2] - R[2][2] * R[3][1])

\* 0.05 < np.linalg.norm(T) < 2.0, compared by the squares
BaselineInRange(T) ==
    LET sq == T[1] * T[1] + T[2] * T[2] + T[3] * T[3]
    IN  MinBaseline * MinBaseline < sq /\ sq < MaxBaseline * MaxBaseline

\* np.max(np.abs(dist)) < 2.0
DistortionSmall(dist) == \A k \in 1 .. Len(dist) : Abs(dist[k]) < MaxDistortion

Mark(passed, otherwise) == IF passed THEN "PASS" ELSE otherwise

\* a slip of validate_calibration: an unusual baseline fails the validation
validate_calibration_baseline_fails(calibration_data) ==
    LET d == calibration_data
        check1 == FLt(d.rms_error, MAX_CALIBRATION_ERROR)
        check2 == d.K1[1][1] > 0 /\ d.K1[2][2] > 0 /\ d.K2[1][1] > 0 /\ d.K2[2][2] > 0
        check3 == /\ NormBelowTolerance(IdentityError(d.R))
                  /\ Abs(Det3(d.R) - RotationOne * RotationOne * RotationOne)
                        < DeterminantTolerance
        check4 == BaselineInRange(d.T)
        check5 == DistortionSmall(d.dist1) /\ DistortionSmall(d.dist2)
        check6 == Shape(d.P1) = <<3, 4>> /\ Shape(d.P2) = <<3, 4>>
    IN  [validation_passed |-> check1 /\ check2 /\ check3 /\ check4 /\ check6,
         printed |-> <<Mark(check1, "FAIL"), Mark(check2, "FAIL"), Mark(check3, "FAIL"),
                       Mark(check4, "FAIL"), Mark(check5, "WARNING"),
                       Mark(check6, "FAIL")>>]

\* validate_calibration(calibration_data): the flag starts True and each
\* failing hard check clears it; printed is the mark of each of the six
\* checks
validate_calibration(calibration_data) ==
    LET d == calibration_data
        check1 == FLt(d.rms_error, MAX_CALIBRATION_ERROR)
        passed1 == IF check1 THEN TRUE ELSE FALSE
        check2 == d.K1[1][1] > 0 /\ d.K1[2][2] > 0 /\ d.K2[1][1] > 0 /\ d.K2[2][2] > 0
        passed2 == IF check2 THEN passed1 ELSE FALSE
        check3 == /\ NormBelowTolerance(IdentityError(d.R))
                  /\ Abs(Det3(d.R) - RotationOne * RotationOne * RotationOne)
                        < DeterminantTolerance
        passed3 == IF check3 THEN passed2 ELSE FALSE
        check4 == BaselineInRange(d.T)
        check5 == DistortionSmall(d.dist1) /\ DistortionSmall(d.dist2)
        check6 == Shape(d.P1) = <<3, 4>> /\ Shape(d.P2) = <<3, 4>>
        passed6 == IF check6 THEN passed3 ELSE FALSE
    IN  [validation_passed |-> passed6,
         printed |-> <<Mark(check1, "FAIL"), Mark(check2, "FAIL"), Mark(check3, "FAIL"),
                       Mark(check4, "WARNING"), Mark(check5, "WARNING"),
                       Mark(check6, "FAIL")>>]

\* camera matrices with focal lengths fx, fy
CameraMatrix(fx, fy) == << <<fx, 0, 0>>, <<0, fy, 0>>, <<0, 0, 1>> >>

\* rotation matrices: the identity, a quarter turn, a matrix 0.005 off the
\* identity, one 0.01 off, a reflection, and a stretch by 1.005
Rotations ==
    {<< <<1000, 0, 0>>, <<0, 1000, 0>>, <<0, 0, 1000>> >>,
     << <<0, -1000, 0>>, <<1000, 0, 0>>, <<0, 0, 1000>> >>,
     << <<1000, 5, 0>>, <<0, 1000, 0>>, <<0, 0, 1000>> >>,
     << <<1000, 10, 0>>, <<0, 1000, 0>>, <<0, 0, 1000>> >>,
     << <<1000, 0, 0>>, <<0, 1000, 0>>, <<0, 0, -1000>> >>,
     << <<1005, 0, 0>>, <<0, 1000, 0>>, <<0, 0, 1000>> >>}

\* translations: 20 cm, none, 3 m
Translations == {<<-20, 0, 0>>, <<0, 0, 0>>, <<-300, 0, 0>>}

\* distortion coefficient vectors: small, and with a coefficient of -3.0
Distortions == {<<1, 0>>, <<1, -30>>}

\* projection matrices of shape 3 x 4, 3 x 3 and 4 x 4
Zeros(rows, cols) == [i \in 1 .. rows |-> [j \in 1 .. cols |-> 0]]
ProjectionPairs ==
    {<<Zeros(3, 4), Zeros(3, 4)>>, <<Zeros(3, 3), Zeros(3, 4)>>,
     <<Zeros(3, 4), Zeros(4, 4)>>}

\* the calibration data a caller may pass
CalibrationData ==
    {[rms_error |-> rms, K1 |-> CameraMatrix(f[1], 10), K2 |-> CameraMatrix(10, f[2]),
      R |-> R, T |-> T, dist1 |-> <<0, 0>>, dist2 |-> dist2, P1 |-> P[1], P2 |-> P[2]] :
        rms \in {5, 10, 15, NaN}, f \in {<<10, 10>>, <<0, 10>>, <<10, -10>>},
        R \in Rotations, T \in Translations, dist2 \in Distortions,
        P \in ProjectionPairs}

\* validate_calibration(calibration_data) is called and returns
CallValidateCalibration ==
    /\ cal_pc = "idle"
    /\ \E calibration_data \in CalibrationData :
        validation' = [none |-> FALSE, calibration_data |-> calibration_data,
                       result |-> validate_calibration(calibration_data)]
    /\ cal_entry' = "validate_calibration"
    /\ cal_pc' = "validated"
    /\ UNCHANGED <<images, output_path, valid_idx, image_size, intrinsics,
                   cal_outcome, files, loaded, exit_status, cal_warnings, stereo_pairs>>
    /\ UNCHANGED <<scorer_vars, clock, pipeline_vars, sink_vars, cli_vars, tri_vars>>

CalibrationNext ==
    \/ CallValidateCalibration
    \/ CallCalibrateStereo
    \/ CallCalibrationMain
    \/ MainNoImages
    \/ CalibrateStereoCheck
    \/ CalibrateCamera1
    \/ CalibrateCamera2
    \/ CalibrateStereoSync
    \/ CalibrateStereoSolve
    \/ CalibrationMainEnd
    \/ CallSaveCalibration
    \/ CallLoadCalibration

---------------------------------------------------------------------------
(* Output/scorer.py: save_result_json and save_result_csv                  *)
(*                                                                         *)
(* The result sink as a state machine: clients save results.              *)

SinkIdle ==
    /\ csv_file = NoFile
    /\ json_file = NoFile
    /\ sink_calls = <<>>

\* the error statistics of the results that are saved: a real human, a
\* deepfake between the thresholds, and a degenerate triangulation
SinkStats ==
    {[mean_error |-> 30, std_error |-> 10, min_error |-> 10, max_error |-> 40,
      cam1_mean |-> 20, cam2_mean |-> 40, n_landmarks |-> 2],
     [mean_error |-> 90, std_error |-> 20, min_error |-> 50, max_error |-> 120,
      cam1_mean |-> 80, cam2_mean |-> 100, n_landmarks |-> 2],
     [mean_error |-> NaN, std_error |-> NaN, min_error |-> NaN, max_error |-> NaN,
      cam1_mean |-> NaN, cam2_mean |-> NaN, n_landmarks |-> 2]}

\* a client generates a result and appends it to, or writes it as, the CSV file
CallSaveResultCsv ==
    /\ Len(sink_calls) < MaxSinkCalls
    /\ \E error_stats \in SinkStats, append \in BOOLEAN :
        LET result == DeepfakeScorer_generate_detection_result(Scorer, error_stats, clock)
        IN  /\ csv_file' = save_result_csv(csv_file, result, append)
            /\ sink_calls' = Append(sink_calls,
                                    [fn |-> "save_result_csv", result |-> result,
                                     append |-> append, ret |-> TRUE])
    /\ clock' = Tick
    /\ UNCHANGED json_file
    /\ UNCHANGED <<scorer_vars, pipeline_vars, calibration_vars, cli_vars, tri_vars>>

\* a client generates a result and saves it as JSON
CallSaveResultJson ==
    /\ Len(sink_calls) < MaxSinkCalls
    /\ \E error_stats \in SinkStats :
        LET result == DeepfakeScorer_generate_detection_result(Scorer, error_stats, clock)
        IN  /\ json_file' = save_result_json(result)
            /\ sink_calls' = Append(sink_calls,
                                    [fn |-> "save_result_json", result |-> result,
                                     append |-> FALSE,
                                     ret |-> save_result_json_ok(result)])
    /\ clock' = Tick
    /\ UNCHANGED csv_file
    /\ UNCHANGED <<scorer_vars, pipeline_vars, calibration_vars, cli_vars, tri_vars>>

SinkNext ==
    \/ CallSaveResultCsv
    \/ CallSaveResultJson

---------------------------------------------------------------------------
(* The scorer as a state machine: a client makes two calls, each to any of  *)
(* its three operations, with any float.  The scorer keeps no state        *)
(* between calls, so two calls show every relation between results.        *)

\* the mean errors a caller may pass: the finite grid and the specials
Errors == ((0 - MaxNegErr) .. MaxErr) \cup {PosInf, NegInf, NaN}

\* the confidence values a caller may pass to is_deepfake
Confidences ==
    ((MIN_CONFIDENCE - ConfMargin) .. (MAX_CONFIDENCE + ConfMargin))
        \cup {PosInf, NegInf, NaN}

\* the statistics of a view pair whose every point has error e
UniformStats(e) ==
    [mean_error |-> e, std_error |-> IF e \in {PosInf, NegInf, NaN} THEN NaN ELSE 0,
     min_error |-> e, max_error |-> e, cam1_mean |-> e, cam2_mean |-> e,
     n_landmarks |-> 6]

NoCall == [fn |-> "none"]

ScorerInit ==
    /\ last_call = NoCall
    /\ prev_call = NoCall
    /\ clock = 0
    /\ PipelineIdle
    /\ CalibrationIdle
    /\ SinkIdle
    /\ CliIdle
    /\ TriangulatorIdle

CallCalculateConfidenceScore ==
    /\ prev_call = NoCall
    /\ \E e \in Errors :
        /\ last_call' = [fn |-> "calculate_confidence_score", arg |-> e,
                         ret |-> DeepfakeScorer_calculate_confidence_score(e)]
        /\ prev_call' = last_call
        /\ UNCHANGED <<clock, pipeline_vars, calibration_vars, sink_vars, cli_vars, tri_vars>>

CallDetermineAuthenticity ==
    /\ prev_call = NoCall
    /\ \E c \in Confidences :
        /\ last_call' = [fn |-> "determine_authenticity", arg |-> c,
                         ret |-> DeepfakeScorer_determine_authenticity(c)]
        /\ prev_call' = last_call
        /\ UNCHANGED <<clock, pipeline_vars, calibration_vars, sink_vars, cli_vars, tri_vars>>

CallGenerateDetectionResult ==
    /\ prev_call = NoCall
    /\ \E e \in Errors :
        /\ last_call' = [fn |-> "generate_detection_result", arg |-> UniformStats(e),
                         ret |-> DeepfakeScorer_generate_detection_result(
                                     Scorer, UniformStats(e), clock)]
        /\ prev_call' = last_call
        /\ clock' = Tick
        /\ UNCHANGED <<pipeline_vars, calibration_vars, sink_vars, cli_vars, tri_vars>>

\* a client asks the error calculator for its classification of an error
CallClassifyAuthenticity ==
    /\ prev_call = NoCall
    /\ \E e \in Errors :
        /\ last_call' = [fn |-> "classify_authenticity", arg |-> e,
                         ret |-> classify_authenticity(ReprojectionErrorCalculator_init, e)]
        /\ prev_call' = last_call
        /\ UNCHANGED <<clock, pipeline_vars, calibration_vars, sink_vars, cli_vars, tri_vars>>

ScorerNext ==
    \/ CallClassifyAuthenticity
    \/ CallCalculateConfidenceScore
    \/ CallDetermineAuthenticity
    \/ CallGenerateDetectionResult

Init == ScorerInit

SpecScorer == Init /\ [][ScorerNext]_vars

SpecPipeline == Init /\ [][PipelineNext]_vars

SpecCalibration == Init /\ [][CalibrationNext]_vars

SpecSink == Init /\ [][SinkNext]_vars

SpecTriangulator == Init /\ [][TriangulatorNext]_vars

---------------------------------------------------------------------------
(* Claims about the scorer, checked under SpecScorer *)

IsConfidenceCall(c) == c.fn = "calculate_confidence_score"
IsAuthenticityCall(c) == c.fn = "determine_authenticity"
IsResultCall(c) == c.fn = "generate_detection_result"

\* C1: for every mean error e, calculate_confidence_score(e) is the
\* reference mapping with the default thresholds: 100 when e <= 5.0, 0 when
\* e >= 15.0, and 100 * (1 - (e - 5.0) / (15.0 - 5.0)) in between (stated
\* in tenths of a pixel, with the quotient cleared: 10 * c = 1500 - 10 * e)
C1_ReferenceMapping ==
    IsConfidenceCall(last_call) =>
        LET e == last_call.arg
            c == last_call.ret
        IN  /\ (e # NaN /\ e <= 50) => c = 100
            /\ (e # NaN /\ e >= 150) => c = 0
            /\ (e # NaN /\ 50 < e /\ e < 150) => 10 * c = 1500 - 10 * e

\* a mean error strictly between the thresholds has been scored
C1_Witness ==
    /\ IsConfidenceCall(last_call)
    /\ last_call.arg = 73
    /\ last_call.ret = 77

\* C2: for every mean error passed to calculate_confidence_score the
\* returned confidence lies in the closed range [0, 100]
C2_ConfidenceInRange ==
    IsConfidenceCall(last_call) =>
        /\ last_call.ret # NaN
        /\ 0 <= last_call.ret
        /\ last_call.ret <= 100

\* C3: calculate_confidence_score is monotone non-increasing: of two calls
\* with mean errors e1 <= e2, the first returns at least what the second does
C3_Monotone ==
    (IsConfidenceCall(prev_call) /\ IsConfidenceCall(last_call)) =>
        LET e1 == prev_call.arg
            e2 == last_call.arg
        IN  (e1 # NaN /\ e2 # NaN /\ e1 <= e2) => prev_call.ret >= last_call.ret

\* two calls on either side of the deepfake threshold
C3_Witness ==
    /\ IsConfidenceCall(prev_call) /\ IsConfidenceCall(last_call)
    /\ prev_call.arg = 149 /\ last_call.arg = 151
    /\ prev_call.ret = 1 /\ last_call.ret = 0

\* C4: with the default thresholds calculate_confidence_score returns exactly
\* 100 at error 0 and at 5.0, exactly 50 at 10.0, and exactly 0 at 15.0 and
\* at every error above 15.0
C4_ExactValues ==
    IsConfidenceCall(last_call) =>
        LET e == last_call.arg
            c == last_call.ret
        IN  /\ e = 0 => c = 100
            /\ e = 50 => c = 100
            /\ e = 100 => c = 50
            /\ e = 150 => c = 0
            /\ (e # NaN /\ e > 150) => c = 0

\* the midpoint of the linear segment has been scored
C4_Witness ==
    /\ IsConfidenceCall(last_call)
    /\ last_call.arg = 100
    /\ last_call.ret = 50

\* C5: determine_authenticity(c), which is is_deepfake(c), is true exactly
\* when c < 70 (a float comparison: false for NaN); at c = 70 the subject is
\* real-human
C5_StrictCutoff ==
    IsAuthenticityCall(last_call) =>
        /\ last_call.ret = (last_call.arg # NaN /\ last_call.arg < 70)
        /\ last_call.arg = 70 => last_call.ret = FALSE

\* the boundary confidence 70 has been classified
C5_Witness ==
    /\ IsAuthenticityCall(last_call)
    /\ last_call.arg = 70
    /\ last_call.ret = FALSE

\* C6: with the default thresholds generate_detection_result classifies a
\* mean error of 10.0 px (confidence 50) as deepfake, every mean error
\* above 8.0 px as deepfake, and every mean error at or below 8.0 px as
\* real-human
C6_BiasedTowardDeepfake ==
    IsResultCall(last_call) =>
        LET e == last_call.arg.mean_error
            d == last_call.ret.detection
        IN  /\ e = 100 =>
                d.confidence_score = 50 /\ d.is_deepfake
                    /\ d.classification = "deepfake"
            /\ (e # NaN /\ e > 80) =>
                d.is_deepfake /\ d.classification = "deepfake"
            /\ (e # NaN /\ e <= 80) =>
                ~d.is_deepfake /\ d.classification = "real_human"

\* a result for a mean error between 8.0 px and the midpoint 10.0 px
C6_Witness ==
    /\ IsResultCall(last_call)
    /\ last_call.arg.mean_error = 90
    /\ last_call.ret.detection.confidence_score = 60
    /\ last_call.ret.detection.classification = "deepfake"

IsClassifyCall(c) == c.fn = "classify_authenticity"

\* C27: for every mean error, the is_deepfake flag of classify_authenticity
\* equals the is_deepfake flag of the result the scorer generates from the
\* same mean error.
C27_SameClassification ==
    (/\ IsClassifyCall(prev_call)
     /\ IsResultCall(last_call)
     /\ last_call.arg.mean_error = prev_call.arg) =>
        last_call.ret.detection.is_deepfake = prev_call.ret.is_deepfake

\* C30: in every result of generate_detection_result, is_deepfake equals
\* (confidence_score < thresholds.confidence_cutoff), classification is
\* 'deepfake' exactly when is_deepfake is true and 'real_human' otherwise,
\* and the recorded thresholds are the ones the confidence was computed
\* with: 100 below thresholds.real_human, 0 above thresholds.deepfake and
\* linear in between.
C30_ResultConsistent ==
    IsResultCall(last_call) =>
        LET e == last_call.arg.mean_error
            d == last_call.ret.detection
            t == last_call.ret.thresholds
            c == d.confidence_score
        IN  /\ d.is_deepfake = (c # NaN /\ c < t.confidence_cutoff)
            /\ d.classification = "deepfake" <=> d.is_deepfake
            /\ d.classification = "real_human" <=> ~d.is_deepfake
            /\ (e # NaN /\ e < t.real_human) => c = MAX_CONFIDENCE
            /\ (e # NaN /\ e > t.deepfake) => c = MIN_CONFIDENCE
            /\ (e # NaN /\ t.real_human <= e /\ e <= t.deepfake) =>
                    (t.deepfake - t.real_human) * c = MAX_CONFIDENCE * (t.deepfake - e)

\* a result whose confidence is just below the recorded cutoff
C30_Witness ==
    /\ IsResultCall(last_call)
    /\ last_call.ret.detection.confidence_score = last_call.ret.thresholds.confidence_cutoff - 1
    /\ last_call.ret.detection.is_deepfake
    /\ last_call.ret.detection.classification = "deepfake"

---------------------------------------------------------------------------
(* Claims about the pipeline and its components (SpecPipeline)             *)

HasRaised(e) == outcome.status = "raised" /\ outcome.exc = e

ReturnedNone ==
    /\ outcome.status = "returned"
    /\ "none" \in DOMAIN outcome.value
    /\ outcome.value.none

\* C7: triangulate called with two landmark arrays of different length
\* raises the mismatch error before undistort_points or
\* cv2.triangulatePoints is called, and never returns an array
C7_TriangulateRejectsMismatch ==
    (/\ entry = "triangulate"
     /\ PyLen(landmarks[1]) # PyLen(landmarks[2])
     /\ pc # "tri_check") =>
        /\ pc = "done"
        /\ HasRaised("ValueError: Landmark count mismatch")
        /\ steps = <<>>
        /\ undistorted = <<>>
        /\ cur_points_3d = PyNone

\* triangulate has rejected a shorter first array
C7_Witness ==
    /\ entry = "triangulate"
    /\ PyLen(landmarks[1]) = 1
    /\ PyLen(landmarks[2]) = 2
    /\ pc = "done"
    /\ HasRaised("ValueError: Landmark count mismatch")

\* C8: calculate_per_landmark_error raises the shape-mismatch error whenever
\* observed and reprojected differ in shape and otherwise returns one error
\* per row; calculate_mean_error raises that error when either view's
\* arrays differ in shape, and then returns no statistics
C8_ShapeMismatchSurfaced ==
    /\ (entry = "calculate_per_landmark_error" /\ pc = "done") =>
            IF args[1].shape # args[2].shape
            THEN HasRaised("ValueError: Shape mismatch")
            ELSE /\ outcome.status = "returned"
                 /\ Len(outcome.value) = PyLen(args[1])
    /\ (/\ entry = "calculate_mean_error"
        /\ pc = "done"
        /\ \/ landmarks[1].shape # cur_reprojected[1].shape
           \/ landmarks[2].shape # cur_reprojected[2].shape) =>
            /\ HasRaised("ValueError: Shape mismatch")
            /\ cur_error_stats = PyNone

\* calculate_mean_error has raised for a mismatch in the second view only
C8_Witness ==
    /\ entry = "calculate_mean_error"
    /\ pc = "done"
    /\ landmarks[1].shape = cur_reprojected[1].shape
    /\ landmarks[2].shape = <<2, 2>>
    /\ cur_reprojected[2].shape = <<1, 2>>
    /\ HasRaised("ValueError: Shape mismatch")

\* what the landmark provider does with the two frames of the entered call
ProviderFront == detect_landmarks(Detector, args[1])
ProviderSide == detect_landmarks(Detector, args[2])
NoFace(r) == ~r.raised /\ IsNone(r.value)

CompleteResult(v) ==
    /\ {"timestamp", "detection", "metrics", "thresholds"} \subseteq DOMAIN v
    /\ DOMAIN v.detection = {"is_deepfake", "confidence_score", "classification"}
    /\ DOMAIN v.metrics = {"mean_reprojection_error", "std_reprojection_error",
                           "min_error", "max_error", "cam1_mean_error",
                           "cam2_mean_error", "landmarks_analyzed"}
    /\ DOMAIN v.thresholds = {"real_human", "deepfake", "confidence_cutoff"}

\* C10: detect_from_frames ends in exactly one of a complete result
\* (detection, metrics and thresholds present), None, or a raised error,
\* and produces nothing before it ends
C10_OneOutcome ==
    entry = "detect_from_frames" =>
        IF pc = "done"
        THEN \/ HasRaised(outcome.exc)
             \/ ReturnedNone
             \/ /\ outcome.status = "returned"
                /\ ~ReturnedNone
                /\ CompleteResult(outcome.value)
        ELSE outcome = Pending

\* a complete result has been returned for a pair of faces
C10_Witness ==
    /\ entry = "detect_from_frames"
    /\ pc = "done"
    /\ outcome.status = "returned"
    /\ ~ReturnedNone
    /\ CompleteResult(outcome.value)
    /\ outcome.value.detection.classification = "deepfake"

---------------------------------------------------------------------------
(* Claims about the calibration (SpecCalibration)                          *)

\* the number of images of a list that are readable and show the board
NumDetected(image_paths) ==
    Cardinality({i \in 1 .. Len(image_paths) : image_paths[i] = "board"})

\* the images at which both cameras show the board
SynchronizedPairs ==
    {i \in 1 .. Len(images[1]) : images[1][i] = "board" /\ images[2][i] = "board"}

\* calibrate_single_camera has been run for camera 1, for camera 2
Camera1Calibrated ==
    /\ images # <<>>
    /\ Len(images[1]) = Len(images[2])
    /\ cal_pc \notin {"check", "cam1"}
Camera2Calibrated ==
    /\ Camera1Calibrated
    /\ Len(intrinsics) >= 1
    /\ cal_pc # "cam2"

InsufficientImages(camera_name, n) ==
    [type |-> "ValueError",
     message |-> "Not enough valid calibration images",
     camera |-> camera_name,
     found |-> n,
     need |-> 10]

\* C11: when fewer than 10 images of a camera's list are readable with the
\* checkerboard detected, calibrate_single_camera raises the error that
\* names the camera, the number found and the number needed, and no camera
\* matrix is produced for that camera; unreadable images and images without
\* the checkerboard are not counted
C11_InsufficientDetections ==
    /\ (Camera1Calibrated /\ NumDetected(images[1]) < 10) =>
            /\ cal_outcome = Raising(InsufficientImages("Camera 1 (Front)",
                                                        NumDetected(images[1])))
            /\ intrinsics = <<>>
    /\ (Camera2Calibrated /\ NumDetected(images[2]) < 10) =>
            /\ cal_outcome = Raising(InsufficientImages("Camera 2 (Side)",
                                                        NumDetected(images[2])))
            /\ Len(intrinsics) = 1

\* eleven images for camera 1, one unreadable and one without the board:
\* nine detections, and the error names them
C11_Witness ==
    /\ Camera1Calibrated
    /\ Len(images[1]) = 11
    /\ images[1][1] = "unreadable"
    /\ images[1][2] = "blank"
    /\ images[1][3] = "board"
    /\ cal_outcome = Raising(InsufficientImages("Camera 1 (Front)", 9))

\* C12: calibrate_stereo raises the synchronization error, and returns no
\* calibration, whenever fewer than 10 image indices have the checkerboard
\* detected by both cameras, also when each camera alone has 10 detections
C12_InsufficientSynchronizedPairs ==
    (/\ Camera2Calibrated
     /\ Len(intrinsics) = 2
     /\ cal_pc # "sync"
     /\ Cardinality(SynchronizedPairs) < 10) =>
        /\ cal_outcome =
              Raising([type |-> "ValueError",
                       message |-> "Not enough synchronized pairs for stereo calibration",
                       found |-> Cardinality(SynchronizedPairs),
                       need |-> 10])
        /\ cal_pc \in {"main_end", "done"}

\* each camera has ten detections, but only nine are of the same images
C12_Witness ==
    /\ cal_pc = "done"
    /\ Camera2Calibrated
    /\ NumDetected(images[1]) = 10
    /\ NumDetected(images[2]) = 10
    /\ Cardinality(SynchronizedPairs) = 9
    /\ cal_outcome.status = "raised"
    /\ cal_outcome.exc.message = "Not enough synchronized pairs for stereo calibration"

\* a stage of the calibration fails on these image lists
CalibrationMustFail ==
    \/ Len(images[1]) # Len(images[2])
    \/ NumDetected(images[1]) < 10
    \/ NumDetected(images[2]) < 10
    \/ Cardinality(SynchronizedPairs) < 10

SomeFileExists == \E f \in FileNames : files[f].exists

\* C13: if a stage of the calibration fails (unequal list lengths, too few
\* detections of a camera, too few synchronized pairs, a solver fault),
\* calibrate_stereo returns no calibration; in main save_calibration is
\* then not executed and the exit status is 1; a calibration file exists
\* only after calibrate_stereo has returned a calibration
C13_NoPartialCalibration ==
    /\ (images # <<>> /\ CalibrationMustFail) => cal_outcome.status # "returned"
    /\ (images # <<>> /\ CalibrationMustFail /\ cal_pc \in {"main_end", "done"}) =>
            cal_outcome.status = "raised"
    /\ SomeFileExists => cal_outcome.status = "returned"
    /\ (cal_entry = "main" /\ cal_pc = "done" /\ cal_outcome.status # "returned") =>
            exit_status = 1 /\ ~SomeFileExists
    /\ (cal_entry = "main" /\ exit_status = 0) =>
            cal_outcome.status = "returned" /\ SomeFileExists
    /\ (cal_entry = "main" /\ cal_pc # "done") => exit_status = -1

\* main has ended after the stereo solver failed: status 1 and no file
C13_Witness ==
    /\ cal_entry = "main"
    /\ cal_pc = "done"
    /\ cal_outcome = Raising([type |-> "cv2.error", message |-> "stereoCalibrate"])
    /\ exit_status = 1
    /\ ~SomeFileExists

\* the fields save_calibration writes
PersistedArrays == {"K1", "K2", "dist1", "dist2", "R", "T", "E", "F", "P1", "P2"}

HardChecksPass(d) ==
    /\ d.rms_error # NaN /\ d.rms_error < MAX_CALIBRATION_ERROR
    /\ \A K \in {d.K1, d.K2} : K[1][1] > 0 /\ K[2][2] > 0
    /\ NormBelowTolerance(IdentityError(d.R))
    /\ Det3(d.R) > RotationOne * RotationOne * RotationOne - DeterminantTolerance
    /\ Det3(d.R) < RotationOne * RotationOne * RotationOne + DeterminantTolerance
    /\ Len(d.P1) = 3 /\ Len(d.P2) = 3
    /\ \A i \in 1 .. 3 : Len(d.P1[i]) = 4 /\ Len(d.P2[i]) = 4

\* C28: validate_calibration returns True exactly when the four hard checks
\* pass (rms_error below MAX_CALIBRATION_ERROR, four positive focal lengths,
\* R orthogonal with determinant +1 within tolerance, both projection
\* matrices 3 x 4); the baseline and the distortion coefficients draw
\* warnings only and no other baseline or distortion changes the value.
C28_HardChecksDecide ==
    ~IsNone(validation) =>
        LET d == validation.calibration_data
            r == validation.result
        IN  /\ r.validation_passed = HardChecksPass(d)
            /\ r.printed[4] \in {"PASS", "WARNING"}
            /\ r.printed[5] \in {"PASS", "WARNING"}
            /\ \A T \in Translations, dist2 \in Distortions :
                validate_calibration([d EXCEPT !.T = T, !.dist2 = dist2]).validation_passed
                    = r.validation_passed

\* a calibration with no baseline and a large distortion coefficient has
\* passed the validation with two warnings
C28_Witness ==
    /\ ~IsNone(validation)
    /\ validation.result.validation_passed
    /\ validation.result.printed[4] = "WARNING"
    /\ validation.result.printed[5] = "WARNING"
    /\ validation.calibration_data.R[1][2] = 5

---------------------------------------------------------------------------
(* Claims about the geometry (SpecPipeline)                                *)

\* the 4th homogeneous coordinate cv2.triangulatePoints returns is zero for
\* one of the landmark pairs that were triangulated
ZeroDivisorInTriangulate ==
    /\ undistorted # <<>>
    /\ PyLen(undistorted[1]) = PyLen(undistorted[2])
    /\ \E i \in 1 .. PyLen(undistorted[1]) :
            cv2_triangulatePoint(Triangulator.P1, Triangulator.P2,
                                 undistorted[1].data[i],
                                 undistorted[2].data[i])[4] = 0

\* C14: when the homogeneous divisor is zero the degeneracy is detected and
\* surfaced as a sentinel or a failure: detect_from_frames does not return
\* a detection result for such landmarks, and triangulate does not return
\* an array for them
C14_DegeneracySurfaced ==
    (/\ entry \in {"detect_from_frames", "triangulate"}
     /\ pc = "done"
     /\ ZeroDivisorInTriangulate) =>
        outcome.status = "raised" \/ ReturnedNone

\* the pinhole projection of one point by a camera of focal length f whose
\* projection matrix has tx in its 4th column
Pinhole(p, f, tx) == <<FDiv(f * p[1] + tx, p[3]), FDiv(f * p[2], p[3])>>

\* C16: project_3d_to_2d projects with P1 for camera 'cam1' and with P2 for
\* camera 'cam2', and for every other selector raises the invalid-camera
\* error and returns no projection
C16_CameraSelector ==
    (entry = "project_3d_to_2d" /\ pc = "done") =>
        LET points == args[1]
            camera == args[2]
            Projection(tx) ==
                NdArray([i \in 1 .. PyLen(points) |-> Pinhole(points.data[i], 10, tx)], 2)
        IN  IF camera = "cam1"
            THEN outcome = Returned(Projection(0))
            ELSE IF camera = "cam2"
            THEN outcome = Returned(Projection(-200))
            ELSE HasRaised("ValueError: camera must be 'cam1' or 'cam2'")

\* a selector that differs from 'cam1' only in case has been rejected
C16_Witness ==
    /\ entry = "project_3d_to_2d"
    /\ pc = "done"
    /\ args[2] = "CAM1"
    /\ PyLen(args[1]) = 2
    /\ HasRaised("ValueError: camera must be 'cam1' or 'cam2'")

\* m is the mean of the finite numbers xs, to the precision of the model
IsMeanOf(m, xs) ==
    /\ Len(xs) * m <= FSum(xs)
    /\ FSum(xs) < Len(xs) * (m + 1)

\* C20: the statistics calculate_mean_error returns: mean_error, min_error
\* and max_error are taken over the concatenation of both views' errors,
\* cam1_mean and cam2_mean over each view's own errors, so that
\* min_error <= mean_error <= max_error and mean_error lies between
\* cam1_mean and cam2_mean
C20_MeanStatistics ==
    "mean_error" \in DOMAIN cur_error_stats =>
        LET st == cur_error_stats
            all_errors == st.errors_cam1 \o st.errors_cam2
        IN  /\ FLe(st.min_error, st.mean_error)
            /\ FLe(st.mean_error, st.max_error)
            /\ \/ FLe(st.cam1_mean, st.mean_error) /\ FLe(st.mean_error, st.cam2_mean)
               \/ FLe(st.cam2_mean, st.mean_error) /\ FLe(st.mean_error, st.cam1_mean)
            /\ IsMeanOf(st.mean_error, all_errors)
            /\ IsMeanOf(st.cam1_mean, st.errors_cam1)
            /\ IsMeanOf(st.cam2_mean, st.errors_cam2)
            /\ \A k \in 1 .. Len(all_errors) :
                    st.min_error <= all_errors[k] /\ all_errors[k] <= st.max_error

\* detect_from_frames returned a complete result to main
ResultProduced ==
    /\ entry = "detect_from_frames"
    /\ outcome.status = "returned"
    /\ ~ReturnedNone
    /\ CompleteResult(outcome.value)

\* main met a hard failure: the calibration file is missing or unusable,
\* the frames could not be loaded, or detect_from_frames raised
HardFailure ==
    \/ cli_args.calibration # "valid"
    \/ LoadFrames(cli_args).raised
    \/ outcome.status = "raised"

\* C17: detect_deepfake.main exits with a non-zero status on every hard
\* failure (missing calibration file, any exception during detection) and
\* when the result is classified as a deepfake, and with status 0 exactly
\* when a result was produced and classified as a real human.
C17_ExitStatus ==
    IF cli_pc = "exited"
    THEN /\ exit_code >= 0
         /\ HardFailure => exit_code # 0
         /\ exit_code = 0 =>
                ResultProduced /\ outcome.value.detection.classification = "real_human"
         /\ (ResultProduced /\ outcome.value.detection.classification = "real_human")
                => exit_code = 0
         /\ (ResultProduced /\ outcome.value.detection.classification = "deepfake")
                => exit_code # 0
    ELSE exit_code = -1

\* main has exited with status 1 after the loader raised inside the
\* detection block, with a valid calibration file
C17_Witness ==
    /\ cli_pc = "exited"
    /\ cli_args.calibration = "valid"
    /\ LoadFrames(cli_args).raised
    /\ close_calls = 1
    /\ exit_code = 1

\* the number (1 or 2) of the camera a warning names
WarnedCamera(w) == IF w.camera = "Camera 1 (Front)" THEN 1 ELSE 2

\* the failures of calibrate_stereo that the code raises
CalibrationFailures ==
    {"Camera 1 and Camera 2 must have same number of images",
     "Not enough valid calibration images",
     "Not enough synchronized pairs for stereo calibration",
     "calibrateCamera", "stereoCalibrate"}

\* C21: a mean reprojection error above MAX_CALIBRATION_ERROR in
\* calibrate_single_camera only draws a warning: the camera's model is
\* returned, calibrate_stereo goes on to the next camera, the
\* synchronization and the stereo step, and when calibrate_stereo fails
\* afterwards it fails for another reason.
C21_ErrorOnlyWarns ==
    /\ cal_outcome.status = "raised" =>
            cal_outcome.exc.message \in CalibrationFailures
    /\ \A k \in 1 .. Len(cal_warnings) :
        LET w == cal_warnings[k]
        IN  /\ w.mean_error > MAX_CALIBRATION_ERROR
            /\ Len(intrinsics) >= WarnedCamera(w)
            /\ Len(valid_idx) >= WarnedCamera(w)
            /\ IF WarnedCamera(w) = 1
               THEN cal_pc \in {"cam2", "sync", "solve", "main_end", "done"}
               ELSE cal_pc \in {"sync", "solve", "main_end", "done"}
            /\ (/\ cal_outcome.status = "raised"
                /\ cal_outcome.exc.message = "Not enough valid calibration images")
                    => cal_outcome.exc.camera # w.camera

\* both cameras drew the warning and calibrate_stereo returned its results
C21_Witness ==
    /\ Len(cal_warnings) = 2
    /\ cal_outcome.status = "returned"
    /\ ~IsNone(stereo_pairs)

\* the indices detected in both cameras' lists of the entered call
SynchronizedIndices ==
    {i \in 0 .. Len(images[1]) - 1 :
        images[1][i + 1] = "board" /\ images[2][i + 1] = "board"}

\* C22: cv2.stereoCalibrate is given exactly one triple (object points,
\* camera-1 corners, camera-2 corners) per synchronized index, in ascending
\* index order, both corner sets from the images of that index; there are
\* as many triples as synchronized indices, at least MIN_CALIBRATION_IMAGES.
C22_SolverInput ==
    ~IsNone(stereo_pairs) =>
        LET pairs == stereo_pairs.pairs
        IN  /\ Len(pairs) = Cardinality(SynchronizedIndices)
            /\ Len(pairs) >= MIN_CALIBRATION_IMAGES
            /\ \A k \in 1 .. Len(pairs) :
                /\ pairs[k].corners1.camera = 1
                /\ pairs[k].corners2.camera = 2
                /\ pairs[k].corners1.idx = pairs[k].corners2.idx
                /\ pairs[k].corners1.idx \in SynchronizedIndices
            /\ \A k \in 1 .. Len(pairs) - 1 :
                pairs[k].corners1.idx < pairs[k + 1].corners1.idx

\* the solver was given the pairs of two lists with an index at which only
\* camera 1 detected the board, before the last synchronized index
C22_Witness ==
    /\ ~IsNone(stereo_pairs)
    /\ Len(images[1]) > Cardinality(SynchronizedIndices)
    /\ \E i \in 1 .. Len(images[1]) - 1 :
            images[1][i] = "board" /\ images[2][i] # "board"

\* the component calls of a complete detect_from_frames, in order;
\* undistort_points and cv2.triangulatePoints are the calls of triangulate
DetectionSteps ==
    <<"detect_landmarks_pair", "undistort_points", "cv2.triangulatePoints",
      "reproject_landmarks", "calculate_mean_error", "generate_detection_result">>

IsPrefix(p, q) == Len(p) <= Len(q) /\ p = SubSeq(q, 1, Len(p))

\* the steps made so far are the first steps of a detection, and only
\* landmark detection was made when it found no landmarks
StepsInOrder ==
    entry = "detect_from_frames" =>
        /\ IsPrefix(steps, DetectionSteps)
        /\ ReturnedNone => steps = <<"detect_landmarks_pair">>
        /\ (outcome.status = "returned" /\ ~ReturnedNone) => steps = DetectionSteps
        /\ (outcome.status = "raised" /\ cli_pc = "off") => steps # <<>>

\* C25: detect_from_frames makes its steps at most once each and in the
\* order landmark detection, triangulate, reproject, error aggregation,
\* scoring; no step after landmark detection is made when no landmarks
\* were found, and no step is made after the call has ended, by a return
\* or by the exception of a step.
C25_StepOrder ==
    /\ []StepsInOrder
    /\ [][pc = "done" => steps' = steps]_vars

\* a detection has made all its steps and returned
C25_Witness ==
    /\ entry = "detect_from_frames"
    /\ pc = "done"
    /\ steps = DetectionSteps
    /\ outcome.status = "returned"

\* what detect_landmarks_pair does with the two frames of the entered call
ProviderPair == detect_landmarks_pair(Detector, args[1], args[2])

\* C26: detect_landmarks_pair returns two landmark arrays of equal length or
\* (None, None), never landmarks for one view only; when both views are
\* detected with different landmark counts it raises; and the landmarks
\* detect_from_frames goes on with are the two arrays it returned.
C26_PairOrNothing ==
    (entry = "detect_from_frames" /\ pc # "detect") =>
        /\ ~ProviderPair.raised =>
            \/ ProviderPair.value = <<PyNone, PyNone>>
            \/ /\ ~IsNone(ProviderPair.value[1])
               /\ ~IsNone(ProviderPair.value[2])
               /\ PyLen(ProviderPair.value[1]) = PyLen(ProviderPair.value[2])
               /\ ProviderPair.value = <<ProviderFront.value, ProviderSide.value>>
        /\ (/\ ~ProviderFront.raised /\ ~ProviderSide.raised
            /\ ~NoFace(ProviderFront) /\ ~NoFace(ProviderSide)
            /\ PyLen(ProviderFront.value) # PyLen(ProviderSide.value)) =>
                /\ ProviderPair.raised
                /\ ProviderPair.exc = "ValueError: Landmark count mismatch"
        /\ pc \notin {"done", "idle"} => landmarks = ProviderPair.value

\* a face in the side view only: (None, None) has been returned by the
\* detector and the detection has ended
C26_Witness ==
    /\ entry = "detect_from_frames"
    /\ pc = "done"
    /\ ~ProviderFront.raised /\ ~ProviderSide.raised
    /\ NoFace(ProviderFront)
    /\ ~NoFace(ProviderSide)
    /\ ProviderPair = Ok(<<PyNone, PyNone>>)

\* main has constructed the pipeline
PipelineConstructed ==
    /\ cli_pc # "off"
    /\ ~DeepfakeDetectionPipeline_init(cli_args.calibration).raised

\* C29: once main has constructed the pipeline, pipeline.close() is executed
\* exactly once before the process exits, on every path (real human,
\* deepfake, no detection, exception); it is not executed before the
\* detection has ended, never a second time, and not at all when the
\* pipeline was not constructed.
C29_ClosedOnce ==
    /\ [](close_calls = IF PipelineConstructed /\ cli_pc = "exited" THEN 1 ELSE 0)
    /\ [][close_calls' # close_calls => (cli_pc # "exited" /\ cli_pc' = "exited")]_vars

\* main has exited after a deepfake classification and closed the pipeline
C29_Witness ==
    /\ cli_pc = "exited"
    /\ PipelineConstructed
    /\ ResultProduced
    /\ outcome.value.detection.is_deepfake
    /\ exit_code = 1
    /\ close_calls = 1

---------------------------------------------------------------------------
(* Claims about the triangulator instance (SpecTriangulator) *)

\* |a - b| <= tol on floats
Within(a, b, tol) == FLe(FSub(a, b), tol) /\ FGe(FSub(a, b), 0 - tol)

\* two Nx2 arrays agree within tol in every coordinate
ArraysWithin(x, y, tol) ==
    /\ x.shape = y.shape
    /\ \A i \in 1 .. PyLen(x) :
        /\ Within(x.data[i][1], y.data[i][1], tol)
        /\ Within(x.data[i][2], y.data[i][2], tol)

\* the pixel tolerance of the round trip, in tenths of a pixel
RoundTripTolerance == 1

\* the logged call is triangulate on the noise-free observations of a cloud
NoiseFreeTriangulate(call) ==
    /\ call.fn = "triangulate"
    /\ \E cloud \in Clouds :
            <<call.args[1], call.args[2]>> = Observed(call.self_before, cloud)

\* the second logged call reprojects what the first, a triangulate call on
\* noise-free observations, returned
RoundTripLogged ==
    /\ Len(tri_log) = 2
    /\ NoiseFreeTriangulate(tri_log[1])
    /\ ~tri_log[1].result.raised
    /\ tri_log[2].fn = "reproject_landmarks"
    /\ tri_log[2].args[1] = tri_log[1].result.value

\* C23: for noise-free observations of a point cloud through the loaded
\* calibration, reproject_landmarks(triangulate(pointsA, pointsB)) is
\* (pointsA, pointsB) within the pixel tolerance, so that the mean
\* reprojection error is about 0, the confidence 100 and the
\* classification real human.
C23_RoundTrip ==
    RoundTripLogged =>
        LET pointsA == tri_log[1].args[1]
            pointsB == tri_log[1].args[2]
            reprojected == tri_log[2].result.value
            stats == calculate_mean_error(pointsA, reprojected[1],
                                          pointsB, reprojected[2])
        IN  /\ ArraysWithin(reprojected[1], pointsA, RoundTripTolerance)
            /\ ArraysWithin(reprojected[2], pointsB, RoundTripTolerance)
            /\ ~stats.raised
            /\ Within(stats.value.mean_error, 0, RoundTripTolerance)
            /\ calculate_confidence_score(stats.value.mean_error) = MAX_CONFIDENCE
            /\ ~is_deepfake(calculate_confidence_score(stats.value.mean_error))

\* the arrays among the arguments of a logged call
ArrayArgs(call) ==
    IF call.fn = "triangulate" THEN <<call.args[1], call.args[2]>>
    ELSE IF call.fn = "project_3d_to_2d" THEN <<call.args[1]>>
    ELSE call.args

---------------------------------------------------------------------------
(* Claims about the result sink (SpecSink) *)

\* the save_result_csv calls made so far, in call order
CsvCalls == SelectSeq(sink_calls, LAMBDA c : c.fn = "save_result_csv")

\* every save_result_csv call so far was made with append=True
AllAppending == \A k \in 1 .. Len(CsvCalls) : CsvCalls[k].append

\* C18: the CSV file did not exist at first; after one or more
\* save_result_csv(result, path, append=True) calls and no other, the file
\* has exactly one header row, which is its first row, followed by one data
\* row per call in call order.
C18_AppendKeepsOneHeader ==
    (Len(CsvCalls) >= 1 /\ AllAppending) =>
        /\ csv_file.exists
        /\ Len(csv_file.rows) = Len(CsvCalls) + 1
        /\ csv_file.rows[1].header
        /\ csv_file.rows[1].cells = CsvFieldnames
        /\ \A k \in 1 .. Len(CsvCalls) :
            LET row == csv_file.rows[k + 1]
                result == CsvCalls[k].result
            IN  /\ ~row.header
                /\ Len(row.cells) = Len(CsvFieldnames)
                /\ row.cells[1] = py_str(result.timestamp)
                /\ row.cells[2] = py_str(result.detection.is_deepfake)
                /\ row.cells[4] = py_str(result.metrics.mean_reprojection_error)

\* three appending calls were made, the second with another result than the first
C18_Witness ==
    /\ Len(CsvCalls) = 3
    /\ AllAppending
    /\ CsvCalls[1].result.metrics # CsvCalls[2].result.metrics
    /\ Len(csv_file.rows) = 4

\* the elements of a sequence
Range(seq) == {seq[k] : k \in 1 .. Len(seq)}

\* the columns a flat record of a result has to have: those the CSV writer
\* has, under its names, and the ones for the remaining fields of the result
RequiredColumns ==
    {"timestamp", "is_deepfake", "confidence_score", "mean_error", "std_error",
     "min_error", "max_error", "cam1_error", "cam2_error", "landmarks_count"}

\* the threshold values of a result
ThresholdNames == {"real_human", "deepfake", "confidence_cutoff"}

\* C19: every record the sink writes for a result holds the timestamp, the
\* is-deepfake flag, the confidence, the mean, std, min and max error, both
\* per-camera mean errors, the landmark count and the thresholds used: each
\* CSV header names these columns, each CSV data row has a cell for each, and
\* a JSON object has all of them.
C19_FlatRecordComplete ==
    /\ csv_file.exists =>
        \A k \in 1 .. Len(csv_file.rows) :
            LET row == csv_file.rows[k]
            IN  /\ row.header => RequiredColumns \subseteq Range(row.cells)
                /\ Len(row.cells) >= Cardinality(RequiredColumns) + Cardinality(ThresholdNames)
    /\ (json_file.exists /\ json_file.complete) =>
        LET object == json_file.object
        IN  /\ {"timestamp", "detection", "metrics", "thresholds"} \subseteq DOMAIN object
            /\ {"is_deepfake", "confidence_score"} \subseteq DOMAIN object.detection
            /\ {"mean_reprojection_error", "std_reprojection_error", "min_error",
                "max_error", "cam1_mean_error", "cam2_mean_error",
                "landmarks_analyzed"} \subseteq DOMAIN object.metrics
            /\ ThresholdNames \subseteq DOMAIN object.thresholds

====
